---- MODULE Spec2Model ----
(***************************************************************************)
(* koishi-plugin-csss: address parsing, the TTL cache and retry loop of    *)
(* queryServer, the batch fan-out queryServers, and the schedule timer     *)
(* with its tick executeScheduleTask, as a state machine.                  *)
(*                                                                         *)
(* Time: `now` is Date.now() in units of 1000 ms, so the retry delay of    *)
(* 1000 ms is one unit and config.cacheTime is given in the same units.    *)
(* The wall-clock minute of day read by isWithinScheduleTime is an input   *)
(* of each tick.                                                           *)
(*                                                                         *)
(* Every action is one run-to-completion turn of the JavaScript event      *)
(* loop: a handler from its entry to the point where everything it started *)
(* is suspended at an await on an external collaborator (gamedig.query,    *)
(* setTimeout, canvas.createCanvas, ctx.broadcast).                        *)
(***************************************************************************)
EXTENDS Integers, Sequences, FiniteSets, TLC

VARIABLES
  phase,          \* "loading" | "active" | "disposed": life cycle of apply()
  config,         \* the plugin's config object (the fields the model reads)
  now,            \* Date.now(), in units of 1000 ms
  cache,          \* Map<string, CacheEntry>: function from key to entry
  scheduleTimer,  \* the timer handle variable: 0 is null, otherwise a timer id
  liveTimers,     \* the timers armed by setInterval and not yet cleared
  jobs,           \* async invocations in flight (cs, csss, executeScheduleTask)
  trace,          \* effects of the most recent scheduler handler, in order
  lastTick,       \* what the most recent executeScheduleTask call saw and did
  okAt            \* per key: when a collaborator-backed call last returned

vars == <<phase, config, now, cache, scheduleTimer, liveTimers, jobs, trace,
          lastTick, okAt>>

----------------------------------------------------------------------------
(* Bounds of the model *)

MaxTime == 2
MaxRetry == 1
MaxJobs == 1
\* the longest persistent server list the add flag may build
MaxList == 3
\* the most players a queried server reports
MaxOnline == 3
\* the most players a server reports to the single-server image
MaxRoster == 12

(* Program constants *)

DefaultPort == 27015
MaxPort == 65535
RetryDelay == 1
MaxServers == 10
NameWidth == 20

----------------------------------------------------------------------------
(* Strings *)

EmptyMap == [k \in {} |-> 0]

Char(s, i) == SubSeq(s, i, i)

Drop(s, n) == SubSeq(s, n + 1, Len(s))

StartsWith(s, p) == Len(s) >= Len(p) /\ SubSeq(s, 1, Len(p)) = p

Includes(s, c) == \E i \in 1..Len(s) : Char(s, i) = c

\* position of the first c in s, 0 when there is none
IndexOf(s, c) ==
  IF Includes(s, c)
  THEN CHOOSE i \in 1..Len(s) :
         Char(s, i) = c /\ \A j \in 1..(i - 1) : Char(s, j) # c
  ELSE 0

RECURSIVE Split(_, _)

\* Split, i being the position of the first separator (0: none)
SplitAt(s, c, i) ==
  IF i = 0 THEN <<s>> ELSE <<SubSeq(s, 1, i - 1)>> \o Split(Drop(s, i), c)

\* String.prototype.split with a one-character separator
Split(s, c) == SplitAt(s, c, IndexOf(s, c))

DecDigits == {"0", "1", "2", "3", "4", "5", "6", "7", "8", "9"}

HexDigits == DecDigits \cup {"a", "b", "c", "d", "e", "f",
                             "A", "B", "C", "D", "E", "F"}

DigitVal(c) ==
  CASE c = "0" -> 0 [] c = "1" -> 1 [] c = "2" -> 2 [] c = "3" -> 3
    [] c = "4" -> 4 [] c = "5" -> 5 [] c = "6" -> 6 [] c = "7" -> 7
    [] c = "8" -> 8 [] c = "9" -> 9
    [] c \in {"a", "A"} -> 10 [] c \in {"b", "B"} -> 11
    [] c \in {"c", "C"} -> 12 [] c \in {"d", "D"} -> 13
    [] c \in {"e", "E"} -> 14 [] c \in {"f", "F"} -> 15

AllDigits(s) == \A i \in 1..Len(s) : Char(s, i) \in DecDigits

\* a JavaScript number: NaN, or an integer value
NaN == [nan |-> TRUE, val |-> 0]

Num(n) == [nan |-> FALSE, val |-> n]

isNaN(x) == x.nan

RECURSIVE DigitsValue(_, _, _, _)
\* value of the longest prefix of s made of digits of the radix, after acc
DigitsValue(s, digits, radix, acc) ==
  IF Len(s) > 0 /\ Char(s, 1) \in digits
  THEN DigitsValue(Drop(s, 1), digits, radix, acc * radix + DigitVal(Char(s, 1)))
  ELSE acc

\* the white space the model's strings use
Whitespace == {" ", "\t", "\n"}

RECURSIVE TrimStart(_)
TrimStart(s) ==
  IF Len(s) > 0 /\ Char(s, 1) \in Whitespace THEN TrimStart(Drop(s, 1)) ELSE s

\* the digits of parseInt: NaN when the run of digits is empty
ParseDigits(body, negative, digits, radix) ==
  IF Len(body) = 0 \/ Char(body, 1) \notin digits
  THEN NaN
  ELSE Num((IF negative THEN -1 ELSE 1) * DigitsValue(body, digits, radix, 0))

\* parseInt after the sign: 0x or 0X selects radix 16
ParseUnsigned(u, negative) ==
  IF StartsWith(u, "0x") \/ StartsWith(u, "0X")
  THEN ParseDigits(Drop(u, 2), negative, HexDigits, 16)
  ELSE ParseDigits(u, negative, DecDigits, 10)

\* parseInt after the leading blanks: an optional sign
ParseSigned(t) ==
  IF Len(t) > 0 /\ Char(t, 1) \in {"+", "-"}
  THEN ParseUnsigned(Drop(t, 1), Char(t, 1) = "-")
  ELSE ParseUnsigned(t, FALSE)

\* parseInt(s) with no radix argument: leading blanks, a sign, 0x for hex,
\* then the longest run of digits; NaN when that run is empty
ParseInt(s) == ParseSigned(TrimStart(s))

RECURSIVE TrimEnd(_)
TrimEnd(s) ==
  IF Len(s) > 0 /\ Char(s, Len(s)) \in Whitespace
  THEN TrimEnd(SubSeq(s, 1, Len(s) - 1))
  ELSE s

\* String.prototype.trim
Trim(s) == TrimEnd(TrimStart(s))

\* Number(s) on the strings the schema's HH:MM pattern lets through
NumberOf(s) ==
  IF Len(s) = 0 THEN Num(0)
  ELSE IF AllDigits(s) THEN Num(DigitsValue(s, DecDigits, 10, 0))
  ELSE NaN

RECURSIVE NumToString(_)
\* `${n}` of a non-negative integer
NumToString(n) ==
  LET d == CHOOSE c \in DecDigits : DigitVal(c) = n % 10
  IN  IF n < 10 THEN d ELSE NumToString(n \div 10) \o d

RECURSIVE PadStart(_, _)
\* String.prototype.padStart and padEnd with blanks
PadStart(s, n) == IF Len(s) >= n THEN s ELSE PadStart(" " \o s, n)

RECURSIVE PadEnd(_, _)
PadEnd(s, n) == IF Len(s) >= n THEN s ELSE PadEnd(s \o " ", n)

Uppers == "ABCDEFGHIJKLMNOPQRSTUVWXYZ"

Lowers == "abcdefghijklmnopqrstuvwxyz"

LowerChar(c) == IF Includes(Uppers, c) THEN Char(Lowers, IndexOf(Uppers, c)) ELSE c

RECURSIVE toLowerCase(_)
toLowerCase(s) ==
  IF Len(s) = 0 THEN s ELSE LowerChar(Char(s, 1)) \o toLowerCase(Drop(s, 1))

\* the collation order of the characters lower-cased names are made of:
\* white space, symbols, digits, letters
Collation == " ^0123456789" \o Lowers

RECURSIVE localeCompare(_, _)
\* String.prototype.localeCompare on strings over Collation: -1, 0 or 1
localeCompare(a, b) ==
  IF Len(a) = 0 THEN (IF Len(b) = 0 THEN 0 ELSE -1)
  ELSE IF Len(b) = 0 THEN 1
  ELSE IF IndexOf(Collation, Char(a, 1)) < IndexOf(Collation, Char(b, 1)) THEN -1
  ELSE IF IndexOf(Collation, Char(a, 1)) > IndexOf(Collation, Char(b, 1)) THEN 1
  ELSE localeCompare(Drop(a, 1), Drop(b, 1))

----------------------------------------------------------------------------
(* utils *)

\* the characters of [\u0000-\u001F] the model's strings use
ControlChars == {"\t", "\n"}

RECURSIVE StripColors(_)
\* name.replace(/\^[0-9]/g, ''): one pass from the left
StripColors(s) ==
  IF Len(s) = 0 THEN s
  ELSE IF Len(s) >= 2 /\ Char(s, 1) = "^" /\ Char(s, 2) \in DecDigits
  THEN StripColors(Drop(s, 2))
  ELSE Char(s, 1) \o StripColors(Drop(s, 1))

RECURSIVE StripControls(_)
\* name.replace(/[\u0000-\u001F]/g, '')
StripControls(s) ==
  IF Len(s) = 0 THEN s
  ELSE IF Char(s, 1) \in ControlChars THEN StripControls(Drop(s, 1))
  ELSE Char(s, 1) \o StripControls(Drop(s, 1))

\* stands for the text '未知'
Unknown == "unknown"

\* utils.cleanName
cleanName(name) ==
  IF name = "" THEN Unknown ELSE Trim(StripControls(StripColors(name)))

\* utils.truncateText
truncateText(text, maxLength) ==
  IF Len(text) > maxLength THEN SubSeq(text, 1, maxLength) \o "..." ELSE text

----------------------------------------------------------------------------
(* parseAddress *)

Schemes == {"http://", "https://", "udp://", "tcp://"}

\* input.replace(/^(http|https|udp|tcp):\/\//, '')
StripScheme(input) ==
  IF \E p \in Schemes : StartsWith(input, p)
  THEN Drop(input, Len(CHOOSE p \in Schemes :
                         StartsWith(input, p)
                         /\ \A q \in Schemes : StartsWith(input, q) => Len(p) <= Len(q)))
  ELSE input

\* the match of /^\[([^\]]+)\](?::(\d+))?$/, close being the position of
\* the first "]" and rest what follows it
BracketRest(address, close, rest) ==
  IF Len(address) > 0 /\ Char(address, 1) = "[" /\ close >= 3
     /\ (Len(rest) = 0
         \/ (Len(rest) >= 2 /\ Char(rest, 1) = ":" /\ AllDigits(Drop(rest, 1))))
  THEN <<TRUE, SubSeq(address, 2, close - 1),
         IF Len(rest) = 0 THEN "" ELSE Drop(rest, 1)>>
  ELSE <<FALSE>>

BracketClose(address, close) == BracketRest(address, close, Drop(address, close))

\* address.match(/^\[([^\]]+)\](?::(\d+))?$/): <<TRUE, host, portText>>,
\* portText "" when the port group did not take part; <<FALSE>> on no match
BracketMatch(address) == BracketClose(address, IndexOf(address, "]"))

\* ValidPort with the upper end of the range excluded
ValidPortBelowMax(port) == ~isNaN(port) /\ port.val >= 1 /\ port.val < MaxPort

\* !isNaN(port) && port >= 1 && port <= 65535
ValidPort(port) == ~isNaN(port) /\ port.val >= 1 /\ port.val <= MaxPort

InvalidAddress(input) == [kind |-> "InvalidAddress", detail |-> input]

\* match[2] ? parseInt(match[2]) : 27015
BracketPort(m) == IF m[3] # "" THEN ParseInt(m[3]) ELSE Num(DefaultPort)

\* the split branch of parseAddress, port being parseInt(parts[1]) of a
\* two-part split
SplitBranch(input, parts, port) ==
  IF Len(parts) = 2 /\ ValidPort(port)
  THEN [ok |-> TRUE, host |-> parts[1], port |-> port.val]
  ELSE IF Len(parts) = 1
  THEN [ok |-> TRUE, host |-> parts[1], port |-> DefaultPort]
  ELSE [ok |-> FALSE, error |-> InvalidAddress(input)]

SplitParts(input, parts) ==
  SplitBranch(input, parts, IF Len(parts) = 2 THEN ParseInt(parts[2]) ELSE NaN)

\* the bracket branch of parseAddress, falling through to the split branch
BracketBranch(input, address, m, port) ==
  IF Includes(address, "[") /\ m[1] /\ port.val >= 1 /\ port.val <= MaxPort
  THEN [ok |-> TRUE, host |-> m[2], port |-> port.val]
  ELSE SplitParts(input, Split(address, ":"))

ParseMatched(input, address, m) ==
  BracketBranch(input, address, m, IF m[1] THEN BracketPort(m) ELSE NaN)

ParseStripped(input, address) == ParseMatched(input, address, BracketMatch(address))

\* [ok |-> TRUE, host, port] or [ok |-> FALSE, error] for the thrown Error
parseAddress(input) == ParseStripped(input, StripScheme(input))

----------------------------------------------------------------------------
(* The cache and queryServer *)


\* what gamedig.query resolves with (the fields the plugin's text reports
\* read; a player is a record with a name), and the messages of what it
\* rejects with
GameResult(name, players, maxplayers) ==
  [name |-> name, players |-> players, maxplayers |-> maxplayers]

FirstResult == GameResult("r1", <<>>, 0)

Results == {FirstResult, GameResult("r2", <<>>, 0)}

ErrorMessages == {"", "timeout"}

UnknownError == "unknown error"

\* new Error(`...: ${lastError?.message || '...'}`)
QueryFailed(lastError) ==
  [kind |-> "QueryFailed",
   detail |-> IF lastError.message = "" THEN UnknownError ELSE lastError.message]

\* `${host}:${port}`
CacheKey(host, port) == host \o ":" \o NumToString(port)

\* cached && now - cached.timestamp < config.cacheTime, under cacheTime > 0
CacheHit(key, t) ==
  /\ config.cacheTime > 0
  /\ key \in DOMAIN cache
  /\ t - cache[key].timestamp < config.cacheTime

NoError == [message |-> "none"]

\* the address strings the commands and the configured serverList supply
Addresses == {"a:1", "udp://a:1", "a:0", "b:2", "bad"}

\* the hosts, the ports and the other address arguments parseAddress is
\* exercised on: plain hosts (one empty, one with a blank, ones with
\* brackets), ports at and around the ends of 1..65535, and strings of no
\* accepted shape
ParseHosts == {"", "h", "a b", "[a]", "[a", "a]"}

ParsePorts == {0, 1, 80, 65535, 65536}

OddInputs ==
  {"a:b:c", "a:", "a:x", "a:12x", "a: 7", "a:0x10", "a:-7", "a:+7", "udp://h:80",
   "tcp://h", "ftp://h", "[::1]:27015", "[::1]", "[::1", "[::1]:0", "[::1]:x",
   "[a]:12x", "[a]x", "[]", "x[a]", "http://[b]:81"}

ParseInputs ==
  ParseHosts \cup OddInputs
    \cup {h \o ":" \o NumToString(p) : h \in ParseHosts, p \in ParsePorts}

\* parseAddress and the cache key of its result, tabulated over the inputs
\* (f @@ EmptyMap is f, computed once as a table)
Parsed == [input \in Addresses \cup ParseInputs |-> parseAddress(input)] @@ EmptyMap

KeyOf == [input \in {a \in Addresses \cup ParseInputs : Parsed[a].ok} |->
            CacheKey(Parsed[input].host, Parsed[input].port)] @@ EmptyMap

\* One invocation of the mapped callback of queryServers (or of the body of
\* the cs action): parseAddress, then queryServer up to its first await.
\* st: "invalid" parseAddress threw; "ok" / "failed" queryServer settled;
\* "pending" gamedig.query in flight; "waiting" in the retry delay.
\* attempts, waits, log, hit and sinceOk record what the call did.
Dispatch(server, index) ==
  LET a == Parsed[server]
      key == KeyOf[server]
      base == [index |-> index, server |-> server, st |-> "invalid",
               host |-> "", port |-> 0, key |-> "",
               now |-> now, i |-> 0, lastError |-> NoError, wake |-> 0,
               value |-> "none", hit |-> FALSE, attempts |-> 0,
               waits |-> <<>>, log |-> <<>>, sinceOk |-> -1]
  IN  IF ~a.ok
      THEN [base EXCEPT !.value = a.error]
      ELSE IF CacheHit(key, now)
      THEN [base EXCEPT !.st = "ok", !.host = a.host, !.port = a.port,
                        !.key = key, !.value = cache[key].data,
                        !.hit = TRUE,
                        !.sinceOk = IF key \in DOMAIN okAt THEN now - okAt[key] ELSE -1]
      ELSE [base EXCEPT !.st = "pending", !.host = a.host, !.port = a.port,
                        !.key = key, !.attempts = 1,
                        !.sinceOk = IF key \in DOMAIN okAt THEN now - okAt[key] ELSE -1]

Settled(m) == m.st \in {"invalid", "ok", "failed"}

\* gamedig.query resolved with r: cache.set under cacheTime > 0, return data
OnResolve(m, r) ==
  [m EXCEPT !.st = "ok", !.value = [game |-> "csgo", result |-> r],
            !.log = Append(@, [ok |-> TRUE, v |-> r])]

\* CacheAfterResolve with an entry already there left alone
CacheAfterResolveKeepsFirst(m, r) ==
  IF config.cacheTime > 0 /\ m.key \notin DOMAIN cache
  THEN (m.key :> [timestamp |-> m.now, data |-> [game |-> "csgo", result |-> r]])
       @@ cache
  ELSE cache

\* CacheAfterResolve with the entry stored whatever cacheTime is
CacheAfterResolveAlways(m, r) ==
  (m.key :> [timestamp |-> m.now, data |-> [game |-> "csgo", result |-> r]]) @@ cache

CacheAfterResolve(m, r) ==
  IF config.cacheTime > 0
  THEN (m.key :> [timestamp |-> m.now, data |-> [game |-> "csgo", result |-> r]])
       @@ cache
  ELSE cache

\* LoopNext with the loop running one iteration too many
LoopNextOneMore(m) ==
  IF m.i + 1 <= config.retryCount + 1
  THEN [m EXCEPT !.st = "pending", !.i = @ + 1, !.attempts = @ + 1]
  ELSE [m EXCEPT !.st = "failed", !.i = @ + 1, !.value = QueryFailed(m.lastError)]

\* the loop's `i++` and its test `i <= config.retryCount`: the next
\* gamedig.query, or the throw after the loop
LoopNext(m) ==
  IF m.i + 1 <= config.retryCount
  THEN [m EXCEPT !.st = "pending", !.i = @ + 1, !.attempts = @ + 1]
  ELSE [m EXCEPT !.st = "failed", !.i = @ + 1, !.value = QueryFailed(m.lastError)]

\* OnReject with the delay taken after the last attempt as well
OnRejectAlwaysWaits(m, e) ==
  [m EXCEPT !.lastError = e,
            !.log = Append(@, [ok |-> FALSE, v |-> e.message]),
            !.st = "waiting", !.wake = now + RetryDelay,
            !.waits = Append(@, RetryDelay)]

\* OnReject with lastError assigned only by the first failure
OnRejectKeepsFirstError(m, e) ==
  LET caught == [m EXCEPT !.lastError = IF @ = NoError THEN e ELSE @,
                          !.log = Append(@, [ok |-> FALSE, v |-> e.message])]
  IN  IF m.i < config.retryCount
      THEN [caught EXCEPT !.st = "waiting", !.wake = now + RetryDelay,
                          !.waits = Append(@, RetryDelay)]
      ELSE LoopNext(caught)

\* gamedig.query rejected with e: lastError = error, then the delay when
\* i < config.retryCount, else straight on to the loop's next step
OnReject(m, e) ==
  LET caught == [m EXCEPT !.lastError = e,
                          !.log = Append(@, [ok |-> FALSE, v |-> e.message])]
  IN  IF m.i < config.retryCount
      THEN [caught EXCEPT !.st = "waiting", !.wake = now + RetryDelay,
                          !.waits = Append(@, RetryDelay)]
      ELSE LoopNext(caught)

\* the delay is over
OnWake(m) == LoopNext(m)

----------------------------------------------------------------------------
(* Async invocations in flight *)

JobIds == 1..MaxJobs

\* jobs[0] is the most recent invocation that returned without awaiting
\* anything; jobs[j], j in JobIds, are the invocations suspended at an await
\* or just returned from one
Slots == {0} \cup JobIds

\* the slots of a run in which one more invocation can be suspended while
\* the others are: nothing in the plugin limits how many are
OverlapIds == 1..(MaxJobs + 1)

NoJob == [kind |-> "none"]

\* the suspended invocations this run keeps track of
Awaiting == DOMAIN jobs \ {0}

HasFreeSlot == \E j \in Awaiting : jobs[j] = NoJob

FreeSlot == CHOOSE j \in Awaiting : jobs[j] = NoJob /\ \A k \in 1..(j - 1) : jobs[k] # NoJob

NoOpts == [image |-> FALSE, text |-> FALSE]

\* kind: "cs" | "csss" | "tick"; phase: "query" (awaiting queryServer or
\* Promise.allSettled), "render" (awaiting createCanvas), "send" (awaiting
\* ctx.broadcast), "done" (the async function has returned `ret`).
\* sent records the ctx.broadcast calls that have settled; kept is the set of
\* destinations that were in config.scheduleGroups when the tick began and
\* have stayed there since. args are the positional arguments, warned tells
\* that session.send sent the truncation warning, seen is what the
\* invocation found on entry, imageError that the image generation threw.
\* startTime and queryTime are those of queryServers: Date.now() on entry,
\* and endTime - startTime once Promise.allSettled has resolved.
NewJob(kind, src, opts, servers, members) ==
  [kind |-> kind, src |-> src, phase |-> "query", opts |-> opts,
   servers |-> servers, members |-> members, results |-> <<>>,
   out |-> "none", idx |-> 0, group |-> "", target |-> "", sent |-> <<>>,
   kept |-> {}, ret |-> "none", args |-> <<>>, warned |-> FALSE,
   imageError |-> FALSE, startTime |-> now, queryTime |-> 0,
   seen |-> [serverList |-> config.serverList,
             cacheSize |-> Cardinality(DOMAIN cache)]]

\* MapServers with the entries tagged by the 0-based index
MapServersZeroBased(servers) == [i \in 1..Len(servers) |-> Dispatch(servers[i], i - 1)]

\* serversToQuery.map(async (server, index) => ...): index + 1 of a 0-based
\* index is the 1-based position
MapServers(servers) == [i \in 1..Len(servers) |-> Dispatch(servers[i], i)]

\* what the mapped callback returns, as Promise.allSettled reports it
ResultOf(m) ==
  [status |-> "fulfilled",
   value |-> IF m.st = "ok"
             THEN [index |-> m.index, server |-> m.server, success |-> TRUE,
                   data |-> m.value]
             ELSE [index |-> m.index, server |-> m.server, success |-> FALSE,
                   error |-> m.value]]

\* AllSettled with the first settlement enough
AnySettled(members) == \E i \in 1..Len(members) : Settled(members[i])

AllSettled(members) == \A i \in 1..Len(members) : Settled(members[i])

\* options.image || (config.generateImage && !options.text)
ShouldGenerateImage(opts) == opts.image \/ (config.generateImage /\ ~opts.text)

\* the sort key of formatPlayers with the name taken as it is
SortKeyRaw(player) == toLowerCase(player.name)

\* utils.cleanName(a.name).toLowerCase()
SortKey(player) == toLowerCase(cleanName(player.name))

RECURSIVE InsertPlayer(_, _)
\* player put behind every element that does not compare greater
InsertPlayer(sorted, player) ==
  IF Len(sorted) = 0 THEN <<player>>
  ELSE IF localeCompare(SortKey(Head(sorted)), SortKey(player)) <= 0
  THEN <<Head(sorted)>> \o InsertPlayer(Tail(sorted), player)
  ELSE <<player>> \o sorted

RECURSIVE SortPlayers(_)
\* [...players].sort(...): Array.prototype.sort is stable
SortPlayers(players) ==
  IF Len(players) = 0 THEN <<>>
  ELSE InsertPlayer(SortPlayers(SubSeq(players, 1, Len(players) - 1)),
                    players[Len(players)])

\* array.slice(0, n)
SliceTo(array, n) == SubSeq(array, 1, IF n < Len(array) THEN n ELSE Len(array))

\* stand for the texts '👤 服务器当前无在线玩家', '👤 在线玩家 (n人):' and
\* '... 还有 n 位玩家未显示'
NoPlayersOnline == "no players online"

PlayersHeader(n) == "players online (" \o NumToString(n) \o "):\n"

MoreNotShown(n) == "... " \o NumToString(n) \o " more not shown"

RECURSIVE PlayerLines(_, _)
\* displayPlayers.forEach((player, index) => ...), from element index on
PlayerLines(displayPlayers, index) ==
  IF index > Len(displayPlayers) THEN ""
  ELSE NumToString(index) \o ". " \o cleanName(displayPlayers[index].name) \o "\n"
         \o PlayerLines(displayPlayers, index + 1)

formatPlayers(players) ==
  IF Len(players) = 0 THEN NoPlayersOnline
  ELSE Trim(PlayersHeader(Len(players))
              \o PlayerLines(SliceTo(SortPlayers(players), config.maxPlayers), 1)
              \o (IF Len(players) > config.maxPlayers
                  THEN MoreNotShown(Len(players) - config.maxPlayers)
                  ELSE ""))

\* the text the cs action returns: formatServerInfo(data), then
\* formatPlayers(data.result.players || [])
CsText(data) ==
  [type |-> "text", data |-> data, players |-> formatPlayers(data.result.players)]

\* serverData.name ? utils.cleanName(serverData.name) : '未知'
ServerName(serverData) ==
  IF serverData.name = "" THEN Unknown ELSE cleanName(serverData.name)

\* `${playerCount}/${maxPlayers}`
PlayerCount(serverData) ==
  NumToString(Len(serverData.players)) \o "/" \o NumToString(serverData.maxplayers)

\* one row of generateTextTable: the row text of a success, the parts of
\* the failure marker otherwise
TableRow(result, serverInfo, index) ==
  IF result.status = "fulfilled" /\ result.value.success
  THEN [ok |-> TRUE,
        text |-> PadStart(NumToString(index), 2) \o "  "
                   \o PadEnd(truncateText(ServerName(result.value.data.result),
                                          NameWidth), NameWidth)
                   \o " " \o PlayerCount(result.value.data.result)]
  ELSE [ok |-> FALSE, index |-> index, server |-> serverInfo,
        error |-> result.value.error]

generateTextTable(results, serversToQuery, title) ==
  LET successful == Cardinality({i \in 1..Len(results) :
                                  results[i].status = "fulfilled"
                                  /\ results[i].value.success})
  IN  [type |-> "text", title |-> title, successful |-> successful,
       failed |-> Len(results) - successful,
       rows |-> [i \in 1..Len(results) |->
                   TableRow(results[i], serversToQuery[i], i)]]

\* utils.formatGroupId
formatGroupId(groupId, adapterName, useFullChannelId) ==
  IF useFullChannelId THEN adapterName \o ":" \o groupId ELSE groupId

\* the for...of over config.scheduleGroups, from element idx on: the array
\* is read live, each step ends at `await ctx.broadcast`
SendFrom(job, idx) ==
  IF idx <= Len(config.scheduleGroups)
  THEN [job EXCEPT !.phase = "send", !.idx = idx,
                   !.group = config.scheduleGroups[idx],
                   !.target = formatGroupId(config.scheduleGroups[idx],
                                            config.qqAdapterName,
                                            config.useFullChannelId)]
  ELSE [job EXCEPT !.phase = "done", !.idx = idx, !.group = "", !.target = ""]

\* the string the catch of the tick's image generation leaves in
\* outputContent: time stamp, title and the notice that image generation
\* failed and text format is used, no table yet
ImageFailedNotice ==
  [type |-> "text", stamp |-> "timeStr", notice |-> TRUE, table |-> "none"]

\* executeScheduleTask from the text branch on: the time stamp and the table
\* replace whatever outputContent held, then the broadcast loop starts
TickText(job) ==
  SendFrom([job EXCEPT !.out = [type |-> "text", stamp |-> "timeStr",
                                 notice |-> FALSE,
                                 table |-> generateTextTable(job.results, job.servers,
                                                             "tick")]], 1)

\* executeScheduleTask after its image generation settled: outputContent is
\* the image or the notice, and the text branch is taken when it is a string
\* or image output is switched off by now
TickDrawn(job, ok) ==
  LET drawn == [job EXCEPT !.imageError = ~ok,
                           !.out = IF ok THEN [type |-> "image", of |-> job.results]
                                   ELSE ImageFailedNotice]
  IN  IF drawn.out.type = "text" \/ ~config.scheduleUseImage
      THEN TickText(drawn)
      ELSE SendFrom(drawn, 1)

\* a job whose awaited queries have all settled runs on to its next await
Continue(job) ==
  IF job.phase # "query" \/ ~AllSettled(job.members) THEN job
  ELSE
    LET results == [i \in 1..Len(job.members) |-> ResultOf(job.members[i])]
        j1 == [job EXCEPT !.results = results, !.queryTime = now - job.startTime]
    IN  CASE job.kind = "cs" ->
               IF job.members[1].st # "ok"
               THEN [j1 EXCEPT !.phase = "done",
                               !.ret = [type |-> "error", error |-> job.members[1].value]]
               ELSE IF ShouldGenerateImage(job.opts)
               THEN [j1 EXCEPT !.phase = "render"]
               ELSE [j1 EXCEPT !.phase = "done",
                               !.ret = CsText(job.members[1].value)]
          [] job.kind = "csss" ->
               IF ShouldGenerateImage(job.opts)
               THEN [j1 EXCEPT !.phase = "render"]
               ELSE [j1 EXCEPT !.phase = "done",
                               !.ret = generateTextTable(results, job.servers, "batch")]
          [] job.kind = "tick" ->
               IF config.scheduleUseImage
               THEN [j1 EXCEPT !.phase = "render"]
               ELSE TickText(j1)

----------------------------------------------------------------------------
(* Initial states *)

BaseConfig ==
  [cacheTime |-> 0, retryCount |-> 0, maxPlayers |-> 20, batchTimeout |-> 15,
   generateImage |-> TRUE,
   serverList |-> <<>>, scheduleEnabled |-> FALSE, scheduleInterval |-> 5,
   scheduleStartTime |-> "08:00", scheduleEndTime |-> "08:01",
   scheduleGroups |-> <<>>, scheduleUseImage |-> TRUE,
   qqAdapterName |-> "qq", useFullChannelId |-> TRUE]

\* cacheTime in units of 1000 ms: caching disabled, or a TTL of two units
CacheTimes == {0, 2}

\* getHours() * 60 + getMinutes() as the ticks read it: around 08:00 - 08:01
Minutes == {479, 480, 481, 482}

NoTrace == [handler |-> "none", enabled |-> FALSE, interval |-> 0,
            before |-> [timer |-> 0, live |-> {}], ops |-> <<>>]

NoTick == [src |-> "none", enabled |-> FALSE, groups |-> 0, servers |-> 0,
           minute |-> 0, ran |-> FALSE]

InitWith(configs) ==
  /\ phase = "loading"
  /\ config \in configs
  /\ now = 0
  /\ cache = EmptyMap
  /\ scheduleTimer = 0
  /\ liveTimers = {}
  /\ jobs = [j \in Slots |-> NoJob]
  /\ trace = NoTrace
  /\ lastTick = NoTick
  /\ okAt = EmptyMap

\* the same construction, observed with room for overlapping invocations
InitOverlap(configs) ==
  /\ phase = "loading"
  /\ config \in configs
  /\ now = 0
  /\ cache = EmptyMap
  /\ scheduleTimer = 0
  /\ liveTimers = {}
  /\ jobs = [j \in {0} \cup OverlapIds |-> NoJob]
  /\ trace = NoTrace
  /\ lastTick = NoTick
  /\ okAt = EmptyMap

----------------------------------------------------------------------------
(* Progress of the queries in flight *)

Pending(j, m) ==
  /\ jobs[j] # NoJob
  /\ jobs[j].phase = "query"
  /\ m \in 1..Len(jobs[j].members)

\* gamedig.query of member m of job j resolves with r
QueryResolve(j, m, r) ==
  /\ Pending(j, m)
  /\ jobs[j].members[m].st = "pending"
  /\ cache' = CacheAfterResolve(jobs[j].members[m], r)
  /\ okAt' = IF config.cacheTime > 0
             THEN (jobs[j].members[m].key :> now) @@ okAt
             ELSE okAt
  /\ jobs' = [jobs EXCEPT ![j] =
                Continue([@ EXCEPT !.members[m] = OnResolve(@, r)])]
  /\ UNCHANGED <<phase, config, now, scheduleTimer, liveTimers, trace, lastTick>>

\* gamedig.query of member m of job j rejects with an Error of message e
QueryReject(j, m, e) ==
  /\ Pending(j, m)
  /\ jobs[j].members[m].st = "pending"
  /\ jobs' = [jobs EXCEPT ![j] =
                Continue([@ EXCEPT !.members[m] = OnReject(@, [message |-> e])])]
  /\ UNCHANGED <<phase, config, now, cache, scheduleTimer, liveTimers, trace,
                 lastTick, okAt>>

\* the setTimeout(resolve, 1000) of member m of job j fires
RetryWake(j, m) ==
  /\ Pending(j, m)
  /\ jobs[j].members[m].st = "waiting"
  /\ now >= jobs[j].members[m].wake
  /\ jobs' = [jobs EXCEPT ![j] = Continue([@ EXCEPT !.members[m] = OnWake(@)])]
  /\ UNCHANGED <<phase, config, now, cache, scheduleTimer, liveTimers, trace,
                 lastTick, okAt>>

\* the clock advances by one unit
Tick ==
  /\ now < MaxTime
  /\ now' = now + 1
  /\ UNCHANGED <<phase, config, cache, scheduleTimer, liveTimers, jobs, trace,
                 lastTick, okAt>>

\* an async function that has returned is gone
Retire(j) ==
  /\ jobs[j] # NoJob
  /\ jobs[j].phase = "done"
  /\ jobs' = [jobs EXCEPT ![j] = NoJob]
  /\ UNCHANGED <<phase, config, now, cache, scheduleTimer, liveTimers, trace,
                 lastTick, okAt>>

----------------------------------------------------------------------------
(* The cs command *)

\* cs <address>, without --clear: parseAddress, queryServer (no address is
\* answered with the usage line)
CsQuery(address, opts) ==
  /\ phase = "active"
  /\ address # ""
  /\ HasFreeSlot
  /\ jobs' = [jobs EXCEPT ![FreeSlot] =
                Continue(NewJob("cs", "command", opts, <<address>>,
                                <<Dispatch(address, 1)>>))]
  /\ UNCHANGED <<phase, config, now, cache, scheduleTimer, liveTimers, trace,
                 lastTick, okAt>>

\* the options of cs with --clear given
ClearOpts == [image |-> FALSE, text |-> FALSE, clear |-> TRUE]

\* CsClear with cache.size read after cache.clear()
CsClearCountsAfter(address) ==
  /\ phase = "active"
  /\ address # ""
  /\ cache' = EmptyMap
  /\ okAt' = EmptyMap
  /\ jobs' = [jobs EXCEPT ![0] =
                [NewJob("cs", "clear", ClearOpts, <<address>>, <<>>)
                   EXCEPT !.phase = "done",
                          !.ret = [type |-> "cleared",
                                   count |-> Cardinality(DOMAIN cache')]]]
  /\ UNCHANGED <<phase, config, now, scheduleTimer, liveTimers, trace, lastTick>>

\* cs <address> --clear: count = cache.size, cache.clear(), the count is
\* returned; the address is only tested for being given
CsClear(address) ==
  /\ phase = "active"
  /\ address # ""
  /\ cache' = EmptyMap
  /\ okAt' = EmptyMap
  /\ jobs' = [jobs EXCEPT ![0] =
                [NewJob("cs", "clear", ClearOpts, <<address>>, <<>>)
                   EXCEPT !.phase = "done",
                          !.ret = [type |-> "cleared",
                                   count |-> Cardinality(DOMAIN cache)]]]
  /\ UNCHANGED <<phase, config, now, scheduleTimer, liveTimers, trace, lastTick>>

\* imageUtils.calculatePlayerListParams, the fields drawPlayerList reads
\* that decide which names are drawn
calculatePlayerListParams(playerCount) ==
  [nameMaxLength |-> IF playerCount > 0 /\ playerCount < 10 THEN 40 ELSE 30,
   needTwoColumns |-> playerCount > 10]

\* Math.ceil(n / 2)
CeilHalf(n) == (n + 1) \div 2

\* array.slice(from, to) with 0 <= from <= to
Slice(array, from, to) ==
  SubSeq(array, from + 1, IF to < Len(array) THEN to ELSE Len(array))

\* the texts of the drawText calls of a column, top down
DrawnNames(columnPlayers, params) ==
  [i \in 1..Len(columnPlayers) |->
     truncateText(cleanName(columnPlayers[i].name), params.nameMaxLength)]

\* the two-column branch for displayPerColumn names a column
TwoColumns(sortedPlayers, displayPerColumn, params) ==
  [left |-> DrawnNames(Slice(sortedPlayers, 0, displayPerColumn), params),
   right |-> DrawnNames(Slice(sortedPlayers, displayPerColumn, displayPerColumn * 2),
                        params),
   more |-> IF Len(sortedPlayers) > 2 * displayPerColumn
            THEN Len(sortedPlayers) - 2 * displayPerColumn ELSE 0]

\* the one-column branch
OneColumn(sortedPlayers, params) ==
  [left |-> DrawnNames(SliceTo(sortedPlayers, config.maxPlayers), params),
   right |-> <<>>, more |-> 0]

\* imageUtils.drawPlayerList: the names it draws in the left and in the
\* right column and the number its "more not shown" line tells (0: no line)
drawPlayerList(players, params) ==
  IF Len(players) = 0 THEN [left |-> <<>>, right |-> <<>>, more |-> 0]
  ELSE IF params.needTwoColumns
  THEN TwoColumns(SortPlayers(players),
                  IF CeilHalf(Len(players)) < CeilHalf(config.maxPlayers)
                  THEN CeilHalf(Len(players)) ELSE CeilHalf(config.maxPlayers),
                  params)
  ELSE OneColumn(SortPlayers(players), params)

\* what generateServerImage(data) draws: the banner of data and the player
\* list of data.result.players || []
ServerImage(data) ==
  [type |-> "image", of |-> data,
   players |-> drawPlayerList(data.result.players,
                              calculatePlayerListParams(Len(data.result.players)))]

\* CsDrawn with a catch that falls back to the text report
CsDrawnFallsBackToText(job, ok) ==
  [job EXCEPT !.phase = "done", !.imageError = ~ok,
              !.ret = IF ok THEN ServerImage(job.members[1].value)
                      ELSE CsText(job.members[1].value)]

\* the cs action after generateServerImage settled: the image, or the
\* message of the catch
CsDrawn(job, ok) ==
  [job EXCEPT !.phase = "done", !.imageError = ~ok,
              !.ret = IF ok THEN ServerImage(job.members[1].value)
                      ELSE [type |-> "renderError"]]

\* the csss action after generateBatchImage settled: the image, or, the
\* catch only logging, the text table the action ends with
CsssDrawn(job, ok) ==
  [job EXCEPT !.phase = "done", !.imageError = ~ok,
              !.ret = IF ok THEN [type |-> "image", of |-> job.results]
                      ELSE generateTextTable(job.results, job.servers, "batch")]

\* createCanvas of generateServerImage / generateBatchImage settles
RenderSettle(j, ok) ==
  /\ jobs[j] # NoJob
  /\ jobs[j].phase = "render"
  /\ LET job == jobs[j]
     IN  jobs' = [jobs EXCEPT ![j] =
           CASE job.kind = "cs" -> CsDrawn(job, ok)
             [] job.kind = "csss" -> CsssDrawn(job, ok)
             [] job.kind = "tick" -> TickDrawn(job, ok)]
  /\ UNCHANGED <<phase, config, now, cache, scheduleTimer, liveTimers, trace,
                 lastTick, okAt>>

----------------------------------------------------------------------------
(* Arrays *)

\* Array.prototype.includes and indexOf (1-based, 0 when absent)
ArrayIncludes(array, x) == \E i \in 1..Len(array) : array[i] = x

ArrayIndexOf(array, x) ==
  IF ArrayIncludes(array, x)
  THEN CHOOSE i \in 1..Len(array) :
         array[i] = x /\ \A k \in 1..(i - 1) : array[k] # x
  ELSE 0

\* array.splice(index, 1), index being 1-based
SpliceOne(array, index) ==
  SubSeq(array, 1, index - 1) \o SubSeq(array, index + 1, Len(array))

----------------------------------------------------------------------------
(* The csss command *)

\* CapServers with the slice one entry too long
CapServersOneMore(servers) ==
  IF Len(servers) > MaxServers THEN SubSeq(servers, 1, MaxServers + 1) ELSE servers

\* serversToQuery.slice(0, maxServers) when the list is longer
CapServers(servers) ==
  IF Len(servers) > MaxServers THEN SubSeq(servers, 1, MaxServers) ELSE servers

\* csss [addresses...] without --list, --add, --remove, --clear: the
\* addresses given, else config.serverList, else the "no servers" reply;
\* then the truncation warning and queryServers(serversToQuery) up to its
\* await
CsssServers(addresses, opts, chosen) ==
  IF Len(chosen) = 0
  THEN jobs
  ELSE [jobs EXCEPT ![FreeSlot] =
          Continue([NewJob("csss", "command", opts, CapServers(chosen),
                           MapServers(CapServers(chosen)))
                      EXCEPT !.args = addresses,
                             !.warned = Len(chosen) > MaxServers])]

CsssQuery(addresses, opts) ==
  /\ phase = "active"
  /\ HasFreeSlot
  /\ jobs' = CsssServers(addresses, opts,
                         IF Len(addresses) > 0 THEN addresses ELSE config.serverList)
  /\ UNCHANGED <<phase, config, now, cache, scheduleTimer, liveTimers, trace,
                 lastTick, okAt>>

\* the options of csss, none given: add "" and remove <<>> are `undefined`
NoFlags == [image |-> FALSE, text |-> FALSE, list |-> FALSE, add |-> "",
            remove |-> <<>>, clear |-> FALSE]

\* a csss invocation that returns `ret` without awaiting anything
Managed(opts, ret) ==
  [jobs EXCEPT ![0] =
     [NewJob("csss", "manage", opts, <<>>, <<>>) EXCEPT !.phase = "done", !.ret = ret]]

\* RemoveIndex with the option read as a 0-based index
RemoveIndexZeroBased(list, n) ==
  IF n >= 0 /\ n < Len(list) THEN n + 1 ELSE 0

\* --remove <n>: index = n - 1, accepted when 0 <= index < length. The
\* position to splice, counted from 1, or 0 when the index is refused
RemoveIndex(list, n) ==
  IF n - 1 >= 0 /\ n - 1 < Len(list) THEN n ELSE 0

\* the reply and the list after --remove, element `at` being spliced out
Removed(opts, at) ==
  /\ config' = [config EXCEPT !.serverList = IF at = 0 THEN @ ELSE SpliceOne(@, at)]
  /\ jobs' = Managed(opts,
                     IF at # 0
                     THEN [type |-> "removed", removed |-> config.serverList[at],
                           count |-> Len(config.serverList) - 1]
                     ELSE [type |-> "badIndex", max |-> Len(config.serverList)])

\* csss --list
CsssList(opts) ==
  /\ jobs' = Managed(opts, [type |-> "list", lines |-> config.serverList])
  /\ UNCHANGED config

\* csss --add <address>: parseAddress, then push, or the failure reply
CsssAdd(opts) ==
  /\ Len(config.serverList) < MaxList
  /\ IF Parsed[opts.add].ok
     THEN /\ config' = [config EXCEPT !.serverList = Append(@, opts.add)]
          /\ jobs' = Managed(opts, [type |-> "added", address |-> opts.add,
                                     count |-> Len(config.serverList) + 1])
     ELSE /\ jobs' = Managed(opts, [type |-> "addFailed",
                                     error |-> Parsed[opts.add].error])
          /\ UNCHANGED config

\* csss --remove <n>
CsssRemove(opts) == Removed(opts, RemoveIndex(config.serverList, opts.remove[1]))

\* csss --clear: serverList.length = 0
CsssClear(opts) ==
  /\ config' = [config EXCEPT !.serverList = <<>>]
  /\ jobs' = Managed(opts, [type |-> "cleared", count |-> Len(config.serverList)])

\* the csss action: the first of --list, --add, --remove, --clear that is
\* given decides; with none of them the addresses are queried
Csss(addresses, opts) ==
  /\ phase = "active"
  /\ IF opts.list THEN CsssList(opts)
     ELSE IF opts.add # "" THEN CsssAdd(opts)
     ELSE IF opts.remove # <<>> THEN CsssRemove(opts)
     ELSE IF opts.clear THEN CsssClear(opts)
     ELSE /\ HasFreeSlot
          /\ jobs' = CsssServers(addresses, opts,
                                 IF Len(addresses) > 0 THEN addresses
                                 ELSE config.serverList)
          /\ UNCHANGED config
  /\ UNCHANGED <<phase, now, cache, scheduleTimer, liveTimers, trace, lastTick,
                 okAt>>

----------------------------------------------------------------------------
(* The schedule: executeScheduleTask, startScheduleTask, stopScheduleTask *)

ToMinutes(hours, minutes) ==
  IF isNaN(hours) \/ isNaN(minutes) THEN NaN
  ELSE Num(hours.val * 60 + minutes.val)

TimeParts(parts) ==
  ToMinutes(NumberOf(parts[1]), IF Len(parts) >= 2 THEN NumberOf(parts[2]) ELSE NaN)

\* utils.parseTimeToMinutes: timeStr.split(':').map(Number), hours * 60 + minutes
parseTimeToMinutes(timeStr) == TimeParts(Split(timeStr, ":"))

\* currentMinutes >= startMinutes && currentMinutes < endMinutes
WithinExclusive(startMinutes, endMinutes, currentMinutes) ==
  /\ ~isNaN(startMinutes) /\ ~isNaN(endMinutes)
  /\ currentMinutes >= startMinutes.val
  /\ currentMinutes < endMinutes.val

\* currentMinutes >= startMinutes && currentMinutes <= endMinutes
Within(startMinutes, endMinutes, currentMinutes) ==
  /\ ~isNaN(startMinutes) /\ ~isNaN(endMinutes)
  /\ currentMinutes >= startMinutes.val
  /\ currentMinutes <= endMinutes.val

\* isWithinScheduleTime with the upper bound exclusive
isWithinScheduleTimeExclusive(startTime, endTime, currentMinutes) ==
  WithinExclusive(parseTimeToMinutes(startTime), parseTimeToMinutes(endTime),
                  currentMinutes)

\* utils.isWithinScheduleTime, currentMinutes being getHours() * 60 + getMinutes()
isWithinScheduleTime(startTime, endTime, currentMinutes) ==
  Within(parseTimeToMinutes(startTime), parseTimeToMinutes(endTime), currentMinutes)

\* isWithinScheduleTime of the configured window, tabulated over Minutes
InWindow == [minute \in Minutes |->
               isWithinScheduleTime(BaseConfig.scheduleStartTime,
                                    BaseConfig.scheduleEndTime, minute)] @@ EmptyMap

\* the two early returns of executeScheduleTask, negated
TickPasses(cfg, minute) ==
  /\ cfg.scheduleEnabled
  /\ Len(cfg.scheduleGroups) # 0
  /\ Len(cfg.serverList) # 0
  /\ InWindow[minute]

\* executeScheduleTask() up to its first await: nothing when a guard
\* returns, otherwise queryServers(config.serverList) is under way
executeScheduleTask(cfg, src, minute) ==
  IF TickPasses(cfg, minute)
  THEN [jobs EXCEPT ![FreeSlot] =
         Continue([NewJob("tick", src, NoOpts, cfg.serverList,
                          MapServers(cfg.serverList))
                     EXCEPT !.kept = {cfg.scheduleGroups[i] :
                                        i \in 1..Len(cfg.scheduleGroups)}])]
  ELSE jobs

TickRecord(cfg, src, minute, after) ==
  [src |-> src, enabled |-> cfg.scheduleEnabled, groups |-> Len(cfg.scheduleGroups),
   servers |-> Len(cfg.serverList), minute |-> minute, ran |-> after # jobs]

\* a handle no live timer and no variable holds
NewTimer(held) == CHOOSE t \in 1..(Cardinality(held) + 1) :
                    t \notin held /\ \A u \in 1..(t - 1) : u \in held

\* the calls a handler makes, in order: clearInterval(id),
\* executeScheduleTask(), id = setInterval(executeScheduleTask, ms)
Cleared(id) == [op |-> "clearInterval", id |-> id, ms |-> 0]

Executed == [op |-> "executeScheduleTask", id |-> 0, ms |-> 0]

Armed(t, cfg) ==
  [op |-> "setInterval", id |-> t, ms |-> cfg.scheduleInterval * 60 * 1000]

TraceOf(cfg, handler, ops) ==
  [handler |-> handler, enabled |-> cfg.scheduleEnabled,
   interval |-> cfg.scheduleInterval,
   before |-> [timer |-> scheduleTimer, live |-> liveTimers], ops |-> ops]

\* startScheduleTask that arms without clearing the timer it replaces
startScheduleTaskNoClear(cfg, handler, minute) ==
  IF cfg.scheduleEnabled /\ cfg.scheduleInterval > 0
  THEN LET after == executeScheduleTask(cfg, "start", minute)
           t == NewTimer((liveTimers \cup {scheduleTimer}) \ {0})
       IN  /\ TickPasses(cfg, minute) => HasFreeSlot
           /\ jobs' = after
           /\ lastTick' = TickRecord(cfg, "start", minute, after)
           /\ liveTimers' = liveTimers \cup {t}
           /\ scheduleTimer' = t
           /\ trace' = TraceOf(cfg, handler,
                               <<Executed, Armed(t, cfg)>>)
  ELSE /\ trace' = TraceOf(cfg, handler, <<>>)
       /\ UNCHANGED <<jobs, lastTick, liveTimers, scheduleTimer>>

\* startScheduleTask with the timer armed before the immediate execution
startScheduleTaskArmFirst(cfg, handler, minute) ==
  LET cleared == IF scheduleTimer # 0
                 THEN <<Cleared(scheduleTimer)>>
                 ELSE <<>>
      live == liveTimers \ {scheduleTimer}
  IN  IF cfg.scheduleEnabled /\ cfg.scheduleInterval > 0
      THEN LET after == executeScheduleTask(cfg, "start", minute)
               t == NewTimer((live \cup {scheduleTimer}) \ {0})
           IN  /\ TickPasses(cfg, minute) => HasFreeSlot
               /\ jobs' = after
               /\ lastTick' = TickRecord(cfg, "start", minute, after)
               /\ liveTimers' = live \cup {t}
               /\ scheduleTimer' = t
               /\ trace' = TraceOf(cfg, handler,
                                   cleared \o <<Armed(t, cfg), Executed>>)
      ELSE /\ liveTimers' = live
           /\ trace' = TraceOf(cfg, handler, cleared)
           /\ UNCHANGED <<jobs, lastTick, scheduleTimer>>

\* startScheduleTask: clearInterval of the held handle, then, enabled and
\* interval > 0, executeScheduleTask() and setInterval
startScheduleTask(cfg, handler, minute) ==
  LET cleared == IF scheduleTimer # 0
                 THEN <<Cleared(scheduleTimer)>>
                 ELSE <<>>
      live == liveTimers \ {scheduleTimer}
  IN  IF cfg.scheduleEnabled /\ cfg.scheduleInterval > 0
      THEN LET after == executeScheduleTask(cfg, "start", minute)
               t == NewTimer((live \cup {scheduleTimer}) \ {0})
           IN  /\ TickPasses(cfg, minute) => HasFreeSlot
               /\ jobs' = after
               /\ lastTick' = TickRecord(cfg, "start", minute, after)
               /\ liveTimers' = live \cup {t}
               /\ scheduleTimer' = t
               /\ trace' = TraceOf(cfg, handler,
                                   cleared \o <<Executed, Armed(t, cfg)>>)
      ELSE /\ liveTimers' = live
           /\ trace' = TraceOf(cfg, handler, cleared)
           /\ UNCHANGED <<jobs, lastTick, scheduleTimer>>

\* stopScheduleTask that clears the timer and keeps the handle
stopScheduleTaskKeepsHandle(cfg, handler) ==
  IF scheduleTimer # 0
  THEN /\ liveTimers' = liveTimers \ {scheduleTimer}
       /\ scheduleTimer' = scheduleTimer
       /\ trace' = TraceOf(cfg, handler, <<Cleared(scheduleTimer)>>)
  ELSE /\ trace' = TraceOf(cfg, handler, <<>>)
       /\ UNCHANGED <<liveTimers, scheduleTimer>>

\* stopScheduleTask: with a handle held, clearInterval and handle = null
stopScheduleTask(cfg, handler) ==
  IF scheduleTimer # 0
  THEN /\ liveTimers' = liveTimers \ {scheduleTimer}
       /\ scheduleTimer' = 0
       /\ trace' = TraceOf(cfg, handler, <<Cleared(scheduleTimer)>>)
  ELSE /\ trace' = TraceOf(cfg, handler, <<>>)
       /\ UNCHANGED <<liveTimers, scheduleTimer>>

\* the end of apply(): if (config.scheduleEnabled) startScheduleTask()
Apply(minute) ==
  /\ phase = "loading"
  /\ phase' = "active"
  /\ IF config.scheduleEnabled
     THEN startScheduleTask(config, "init", minute)
     ELSE /\ trace' = TraceOf(config, "init", <<>>)
          /\ UNCHANGED <<jobs, lastTick, liveTimers, scheduleTimer>>
  /\ UNCHANGED <<config, now, cache, okAt>>

\* cs.schedule --start
ScheduleStart(minute) ==
  /\ phase = "active"
  /\ config' = [config EXCEPT !.scheduleEnabled = TRUE]
  /\ startScheduleTask(config', "start", minute)
  /\ UNCHANGED <<phase, now, cache, okAt>>

\* cs.schedule --stop
ScheduleStop ==
  /\ phase = "active"
  /\ config' = [config EXCEPT !.scheduleEnabled = FALSE]
  /\ stopScheduleTask(config', "stop")
  /\ UNCHANGED <<phase, now, cache, jobs, lastTick, okAt>>

\* the 'config' event, the configuration now having scheduleEnabled = enabled
ConfigChanged(enabled, minute) ==
  /\ phase = "active"
  /\ config' = [config EXCEPT !.scheduleEnabled = enabled]
  /\ IF enabled
     THEN startScheduleTask(config', "config", minute)
     ELSE /\ stopScheduleTask(config', "config")
          /\ UNCHANGED <<jobs, lastTick>>
  /\ UNCHANGED <<phase, now, cache, okAt>>

\* the 'config' event, the configuration now having cacheTime = cacheTime
CacheTimeChanged(cacheTime, minute) ==
  /\ phase = "active"
  /\ config' = [config EXCEPT !.cacheTime = cacheTime]
  /\ IF config.scheduleEnabled
     THEN startScheduleTask(config', "config", minute)
     ELSE /\ stopScheduleTask(config', "config")
          /\ UNCHANGED <<jobs, lastTick>>
  /\ UNCHANGED <<phase, now, cache, okAt>>

\* cs.schedule --test and --run: await executeScheduleTask()
ScheduleRun(src, minute) ==
  /\ phase = "active"
  /\ TickPasses(config, minute) => HasFreeSlot
  /\ jobs' = executeScheduleTask(config, src, minute)
  /\ lastTick' = TickRecord(config, src, minute, jobs')
  /\ UNCHANGED <<phase, config, now, cache, scheduleTimer, liveTimers, trace, okAt>>

\* an interval of the armed timer t has elapsed
TimerFire(t, minute) ==
  /\ t \in liveTimers
  /\ TickPasses(config, minute) => HasFreeSlot
  /\ jobs' = executeScheduleTask(config, "timer", minute)
  /\ lastTick' = TickRecord(config, "timer", minute, jobs')
  /\ UNCHANGED <<phase, config, now, cache, scheduleTimer, liveTimers, trace, okAt>>

\* BroadcastSettle with a rejected ctx.broadcast leaving executeScheduleTask
\* as an exception
BroadcastSettleUncaught(j, ok) ==
  /\ jobs[j] # NoJob
  /\ jobs[j].phase = "send"
  /\ jobs' = [jobs EXCEPT ![j] =
                IF ok
                THEN SendFrom([@ EXCEPT !.sent = Append(@, [group |-> jobs[j].group,
                                                             to |-> jobs[j].target,
                                                             ok |-> ok])],
                              @.idx + 1)
                ELSE [@ EXCEPT !.phase = "thrown"]]
  /\ UNCHANGED <<phase, config, now, cache, scheduleTimer, liveTimers, trace,
                 lastTick, okAt>>

\* ctx.broadcast of the tick j settles; the loop goes on to the next group
BroadcastSettle(j, ok) ==
  /\ jobs[j] # NoJob
  /\ jobs[j].phase = "send"
  /\ jobs' = [jobs EXCEPT ![j] =
                SendFrom([@ EXCEPT !.sent = Append(@, [group |-> jobs[j].group,
                                                         to |-> jobs[j].target,
                                                         ok |-> ok])],
                         @.idx + 1)]
  /\ UNCHANGED <<phase, config, now, cache, scheduleTimer, liveTimers, trace,
                 lastTick, okAt>>

\* the 'dispose' event: cache.clear(), stopScheduleTask()
Dispose ==
  /\ phase = "active"
  /\ phase' = "disposed"
  /\ cache' = EmptyMap
  /\ okAt' = EmptyMap
  /\ stopScheduleTask(config, "dispose")
  /\ UNCHANGED <<config, now, jobs, lastTick>>

\* the group id cs.schedule --addGroup stores for a trimmed argument
StoredGroupId(trimmed) ==
  IF config.useFullChannelId /\ ~Includes(trimmed, ":")
  THEN config.qqAdapterName \o ":" \o trimmed
  ELSE trimmed

PushGroup(groupId) ==
  IF ArrayIncludes(config.scheduleGroups, groupId)
  THEN config
  ELSE [config EXCEPT !.scheduleGroups = Append(@, groupId)]

\* a cs.schedule invocation that edits the destination list and returns
\* `ret` without awaiting anything; it saw the list `seen.scheduleGroups`
GroupReply(src, arg, ret) ==
  [NewJob("schedule", src, NoOpts, <<>>, <<>>)
     EXCEPT !.phase = "done", !.args = <<arg>>, !.ret = ret,
            !.seen = [serverList |-> config.serverList,
                      cacheSize |-> Cardinality(DOMAIN cache),
                      scheduleGroups |-> config.scheduleGroups]]

\* the reply of --addGroup for the id it looked up
AddGroupReply(arg, groupId) ==
  GroupReply("addGroup", arg,
             IF ArrayIncludes(config.scheduleGroups, groupId)
             THEN [type |-> "duplicate", groupId |-> groupId]
             ELSE [type |-> "added", groupId |-> groupId,
                   count |-> Len(config.scheduleGroups) + 1])

\* cs.schedule --addGroup <arg>
AddGroup(arg) ==
  /\ phase = "active"
  /\ arg # ""
  /\ config' = PushGroup(StoredGroupId(Trim(arg)))
  /\ jobs' = [jobs EXCEPT ![0] = AddGroupReply(arg, StoredGroupId(Trim(arg)))]
  /\ UNCHANGED <<phase, now, cache, scheduleTimer, liveTimers, trace,
                 lastTick, okAt>>

\* a destination that left config.scheduleGroups is no longer kept by the
\* ticks in flight
Unkeep(job, groupId) ==
  IF job = NoJob THEN job ELSE [job EXCEPT !.kept = @ \ {groupId}]

\* the reply of --removeGroup, `index` being the position indexOf found
\* (0 for none)
RemoveGroupReply(arg, index) ==
  GroupReply("removeGroup", arg,
             [type |-> IF index = 0 THEN "absent" ELSE "removed", groupId |-> arg])

\* cs.schedule --removeGroup <arg>: indexOf, splice on the array in place
RemoveAt(arg, index) ==
  /\ config' = IF index = 0 THEN config
               ELSE [config EXCEPT !.scheduleGroups = SpliceOne(@, index)]
  /\ jobs' = [j \in DOMAIN jobs |->
               IF j = 0 THEN RemoveGroupReply(arg, index)
               ELSE IF index = 0 THEN jobs[j]
               ELSE Unkeep(jobs[j], arg)]

RemoveGroup(arg) ==
  /\ phase = "active"
  /\ arg # ""
  /\ RemoveAt(arg, ArrayIndexOf(config.scheduleGroups, arg))
  /\ UNCHANGED <<phase, now, cache, scheduleTimer, liveTimers, trace, lastTick,
                 okAt>>

----------------------------------------------------------------------------
(* queryServer under the cs command *)

\* two spellings of one host:port
QueryAddresses == {"a:1", "udp://a:1"}

QueryConfigs ==
  {[BaseConfig EXCEPT !.cacheTime = c, !.retryCount = r, !.generateImage = FALSE] :
     c \in CacheTimes, r \in 0..MaxRetry}

InitQuery == InitWith(QueryConfigs)

NextQuery ==
  \/ \E minute \in Minutes : Apply(minute)
  \/ \E a \in QueryAddresses : CsQuery(a, NoOpts)
  \/ \E a \in QueryAddresses : CsClear(a)
  \/ \E j \in JobIds, m \in 1..1, r \in Results : QueryResolve(j, m, r)
  \/ \E j \in JobIds, m \in 1..1, e \in ErrorMessages : QueryReject(j, m, e)
  \/ \E j \in JobIds, m \in 1..1 : RetryWake(j, m)
  \/ \E j \in JobIds : Retire(j)
  \/ Tick

SpecQuery == InitQuery /\ [][NextQuery]_vars

----------------------------------------------------------------------------
(* cs and csss with image output *)

\* no option, --image, --text
RenderOpts == {NoOpts, [NoOpts EXCEPT !.image = TRUE], [NoOpts EXCEPT !.text = TRUE]}

RenderConfigs ==
  {[BaseConfig EXCEPT !.generateImage = img, !.serverList = <<"b:2">>] :
     img \in BOOLEAN}

InitRender == InitWith(RenderConfigs)

NextRender ==
  \/ \E minute \in Minutes : Apply(minute)
  \/ \E a \in {"a:1", "a:0"}, opts \in RenderOpts : CsQuery(a, opts)
  \/ \E addresses \in {<<>>, <<"a:1", "a:0">>}, opts \in RenderOpts :
       CsssQuery(addresses, opts)
  \/ \E j \in JobIds, m \in 1..2, r \in Results : QueryResolve(j, m, r)
  \/ \E j \in JobIds, m \in 1..2 : QueryReject(j, m, "timeout")
  \/ \E j \in JobIds, ok \in BOOLEAN : RenderSettle(j, ok)
  \/ \E j \in JobIds : Retire(j)

SpecRender == InitRender /\ [][NextRender]_vars

----------------------------------------------------------------------------
(* The player list of the cs text report *)

\* player names: plain, upper case, with a colour code, with a blank and a
\* control character, missing, and a colour code alone
PlayerNames == {"b", "A", "^1a", " B\t", "", "^2"}

PlayerLists ==
  UNION {{[i \in 1..n |-> [name |-> names[i]]] : names \in [1..n -> PlayerNames]} :
           n \in 0..MaxOnline}

PlayersConfigs ==
  {[BaseConfig EXCEPT !.generateImage = FALSE, !.maxPlayers = mp] :
     mp \in {0, 1, 2, 20}}

InitPlayers == InitWith(PlayersConfigs)

NextPlayers ==
  \/ \E minute \in Minutes : Apply(minute)
  \/ CsQuery("a:1", NoOpts)
  \/ \E j \in JobIds, players \in PlayerLists :
       QueryResolve(j, 1, GameResult("s", players, 32))
  \/ \E j \in JobIds : QueryReject(j, 1, "timeout")
  \/ \E j \in JobIds : Retire(j)

SpecPlayers == InitPlayers /\ [][NextPlayers]_vars

----------------------------------------------------------------------------
(* The player list of the single-server image *)

\* n players in no particular order of names
Roster(n) == [i \in 1..n |-> [name |-> "P" \o NumToString((i * 7) % 13)]]

\* rosters by size: none, the enlarged one column, the plain one column
\* at its largest, and two columns with an odd and an even count
Rosters == {Roster(n) : n \in {0, 1, 9, 10, 11, MaxRoster}}

DrawConfigs ==
  {[BaseConfig EXCEPT !.generateImage = TRUE, !.cacheTime = 2, !.maxPlayers = mp] :
     mp \in {0, 1, 5, 10, 11, 12, 20}}

InitDraw == InitWith(DrawConfigs)

NextDraw ==
  \/ \E minute \in Minutes : Apply(minute)
  \/ CsQuery("a:1", NoOpts)
  \/ \E j \in JobIds, players \in Rosters :
       QueryResolve(j, 1, GameResult("s", players, 32))
  \/ \E j \in JobIds : QueryReject(j, 1, "timeout")
  \/ \E j \in JobIds, ok \in BOOLEAN : RenderSettle(j, ok)
  \/ \E j \in JobIds : Retire(j)

SpecDraw == InitDraw /\ [][NextDraw]_vars

----------------------------------------------------------------------------
(* The rows of the batch text table *)

\* server names: missing, short, of 20 characters, of 20 characters behind a
\* colour code, of 21 and of 26 characters
ServerNames == {"", "srv", "abcdefghijklmnopqrst", "^3abcdefghijklmnopqrst",
                "abcdefghijklmnopqrstu", "abcdefghijklmnopqrstuvwxyz"}

TableResults ==
  {GameResult(name, players, 32) : name \in ServerNames,
                                   players \in {<<>>, <<[name |-> "p"]>>}}

TableConfigs == {[BaseConfig EXCEPT !.generateImage = FALSE, !.serverList = sl] :
                   sl \in {<<>>, <<"a:1", "a:0", "b:2">>}}

InitTable == InitWith(TableConfigs)

NextTable ==
  \/ \E minute \in Minutes : Apply(minute)
  \/ \E addresses \in {<<>>, <<"a:1">>} : CsssQuery(addresses, NoOpts)
  \/ \E j \in JobIds, m \in 1..3, r \in TableResults : QueryResolve(j, m, r)
  \/ \E j \in JobIds, m \in 1..3 : QueryReject(j, m, "timeout")
  \/ \E j \in JobIds : Retire(j)

SpecTable == InitTable /\ [][NextTable]_vars

----------------------------------------------------------------------------
(* queryServer and the cache map *)

FrameConfigs ==
  {[BaseConfig EXCEPT !.cacheTime = c, !.retryCount = r, !.generateImage = FALSE] :
     c \in CacheTimes, r \in 0..MaxRetry}

InitFrame == InitWith(FrameConfigs)

NextFrame ==
  \/ \E minute \in Minutes : Apply(minute)
  \/ \E a \in {"a:1", "b:2", "a:0"} : CsQuery(a, NoOpts)
  \/ \E c \in CacheTimes : CacheTimeChanged(c, 8 * 60)
  \/ \E j \in JobIds, r \in Results : QueryResolve(j, 1, r)
  \/ \E j \in JobIds : QueryReject(j, 1, "timeout")
  \/ \E j \in JobIds : RetryWake(j, 1)
  \/ \E j \in JobIds : Retire(j)
  \/ Tick

SpecFrame == InitFrame /\ [][NextFrame]_vars

----------------------------------------------------------------------------
(* The batch fan-out with retries *)

\* batchTimeout at its least value, one unit of 1000 ms
FanOutConfigs ==
  {[BaseConfig EXCEPT !.retryCount = r, !.generateImage = FALSE, !.batchTimeout = 1] :
     r \in 0..MaxRetry}

InitFanOut == InitWith(FanOutConfigs)

NextFanOut ==
  \/ \E minute \in Minutes : Apply(minute)
  \/ \E addresses \in {<<"a:1", "a:0", "b:2">>, <<"b:2">>} : CsssQuery(addresses, NoOpts)
  \/ \E j \in JobIds, m \in 1..3, r \in Results : QueryResolve(j, m, r)
  \/ \E j \in JobIds, m \in 1..3 : QueryReject(j, m, "timeout")
  \/ \E j \in JobIds, m \in 1..3 : RetryWake(j, m)
  \/ \E j \in JobIds : Retire(j)
  \/ Tick

SpecFanOut == InitFanOut /\ [][NextFanOut]_vars

----------------------------------------------------------------------------
(* A batch that lists one address several times *)

\* one host:port twice in two spellings, and twice next to another
SameKeyLists == {<<"a:1", "udp://a:1">>, <<"b:2", "a:1", "a:1">>}

SameKeyConfigs ==
  {[BaseConfig EXCEPT !.cacheTime = c, !.retryCount = r, !.generateImage = FALSE] :
     c \in CacheTimes, r \in 0..MaxRetry}

InitSameKey == InitWith(SameKeyConfigs)

NextSameKey ==
  \/ \E minute \in Minutes : Apply(minute)
  \/ \E addresses \in SameKeyLists : CsssQuery(addresses, NoOpts)
  \/ \E j \in JobIds, m \in 1..3, r \in Results : QueryResolve(j, m, r)
  \/ \E j \in JobIds, m \in 1..3 : QueryReject(j, m, "timeout")
  \/ \E j \in JobIds, m \in 1..3 : RetryWake(j, m)
  \/ \E j \in JobIds : Retire(j)
  \/ Tick

SpecSameKey == InitSameKey /\ [][NextSameKey]_vars

----------------------------------------------------------------------------
(* Two cs commands under way at once *)

OverlapConfigs ==
  {[BaseConfig EXCEPT !.cacheTime = c, !.retryCount = r, !.generateImage = FALSE] :
     c \in CacheTimes, r \in 0..MaxRetry}

InitOverlapQueries == InitOverlap(OverlapConfigs)

NextOverlapQueries ==
  \/ \E minute \in Minutes : Apply(minute)
  \/ \E a \in {"a:1", "b:2"} : CsQuery(a, NoOpts)
  \/ \E j \in OverlapIds, r \in Results : QueryResolve(j, 1, r)
  \/ \E j \in OverlapIds : QueryReject(j, 1, "timeout")
  \/ \E j \in OverlapIds : RetryWake(j, 1)
  \/ \E j \in OverlapIds : Retire(j)
  \/ Tick

SpecOverlapQueries == InitOverlapQueries /\ [][NextOverlapQueries]_vars

----------------------------------------------------------------------------
(* The schedule and its ticks *)

SchedConfigs ==
  {[BaseConfig EXCEPT !.scheduleEnabled = e, !.scheduleInterval = 1,
                         !.serverList = sl, !.scheduleGroups = g,
                         !.scheduleUseImage = img] :
     e \in BOOLEAN, sl \in {<<>>, <<"a:1", "a:0">>},
     g \in {<<>>, <<"g1", "g2">>}, img \in BOOLEAN}

InitSched == InitWith(SchedConfigs)

NextSched ==
  \/ \E minute \in Minutes : Apply(minute)
  \/ \E minute \in Minutes : ScheduleStart(minute)
  \/ ScheduleStop
  \/ \E enabled \in BOOLEAN, minute \in Minutes : ConfigChanged(enabled, minute)
  \/ \E src \in {"test", "run"}, minute \in Minutes : ScheduleRun(src, minute)
  \/ \E t \in liveTimers, minute \in Minutes : TimerFire(t, minute)
  \/ \E j \in JobIds, m \in 1..2 : QueryResolve(j, m, FirstResult)
  \/ \E j \in JobIds, m \in 1..2 : QueryReject(j, m, "timeout")
  \/ \E j \in JobIds, ok \in BOOLEAN : RenderSettle(j, ok)
  \/ \E j \in JobIds, ok \in BOOLEAN : BroadcastSettle(j, ok)
  \/ \E j \in JobIds : Retire(j)
  \/ Dispose

SpecSched == InitSched /\ [][NextSched]_vars

----------------------------------------------------------------------------
(* Ticks that begin while a tick is under way *)

OverlapTickConfigs ==
  {[BaseConfig EXCEPT !.scheduleEnabled = e, !.scheduleInterval = 1,
                         !.serverList = <<"a:1">>, !.scheduleGroups = <<"g1">>,
                         !.scheduleUseImage = FALSE] : e \in BOOLEAN}

InitOverlapTicks == InitOverlap(OverlapTickConfigs)

NextOverlapTicks ==
  \/ \E minute \in Minutes : Apply(minute)
  \/ \E minute \in Minutes : ScheduleStart(minute)
  \/ ScheduleStop
  \/ \E src \in {"test", "run"}, minute \in Minutes : ScheduleRun(src, minute)
  \/ \E t \in liveTimers, minute \in Minutes : TimerFire(t, minute)
  \/ \E j \in OverlapIds : QueryResolve(j, 1, FirstResult)
  \/ \E j \in OverlapIds : QueryReject(j, 1, "timeout")
  \/ \E j \in OverlapIds, ok \in BOOLEAN : BroadcastSettle(j, ok)
  \/ \E j \in OverlapIds : Retire(j)

SpecOverlapTicks == InitOverlapTicks /\ [][NextOverlapTicks]_vars

----------------------------------------------------------------------------
(* The batch fan-out under the csss command *)

\* the address lists given to csss: none, one with an address parseAddress
\* rejects in the middle, one with two spellings
BatchLists == {<<>>, <<"a:1", "a:0", "b:2">>, <<"b:2", "udp://a:1">>}

BatchConfigs ==
  {[BaseConfig EXCEPT !.cacheTime = c, !.generateImage = img, !.serverList = sl] :
     c \in CacheTimes, img \in BOOLEAN, sl \in {<<>>, <<"a:1", "a:0">>}}

InitBatch == InitWith(BatchConfigs)

NextBatch ==
  \/ \E minute \in Minutes : Apply(minute)
  \/ \E addresses \in BatchLists : CsssQuery(addresses, NoOpts)
  \/ \E j \in JobIds, m \in 1..3, r \in Results : QueryResolve(j, m, r)
  \/ \E j \in JobIds, m \in 1..3 : QueryReject(j, m, "timeout")
  \/ \E j \in JobIds, ok \in BOOLEAN : RenderSettle(j, ok)
  \/ \E j \in JobIds : Retire(j)

SpecBatch == InitBatch /\ [][NextBatch]_vars

----------------------------------------------------------------------------
(* Ticks while the destination list is edited *)

\* the arguments of --addGroup and of --removeGroup
AddArgs == {" g3"}

RemoveArgs == {"g1", "g3"}

GroupConfigs ==
  {[BaseConfig EXCEPT !.scheduleEnabled = TRUE, !.serverList = <<"a:1">>,
                      !.scheduleGroups = g, !.scheduleUseImage = FALSE,
                      !.useFullChannelId = full] :
     g \in {<<"g1", "g2">>}, full \in BOOLEAN}

InitGroups == InitWith(GroupConfigs)

NextGroups ==
  \/ \E minute \in Minutes : Apply(minute)
  \/ ScheduleRun("run", 8 * 60)
  \/ \E arg \in AddArgs : AddGroup(arg)
  \/ \E arg \in RemoveArgs : RemoveGroup(arg)
  \/ \E j \in JobIds : QueryResolve(j, 1, FirstResult)
  \/ \E j \in JobIds : QueryReject(j, 1, "timeout")
  \/ \E j \in JobIds, ok \in BOOLEAN : BroadcastSettle(j, ok)
  \/ \E j \in JobIds : Retire(j)

SpecGroups == InitGroups /\ [][NextGroups]_vars

----------------------------------------------------------------------------
(* Destinations added and removed by command *)

\* the arguments of --addGroup and of --removeGroup: a bare id, the same
\* with a leading blank, and the id with the adapter prefix
GroupArgs == {"g3", " g3", "qq:g3"}

GroupIdConfigs ==
  {[BaseConfig EXCEPT !.scheduleEnabled = TRUE, !.serverList = <<"a:1">>,
                      !.scheduleGroups = g, !.scheduleUseImage = FALSE,
                      !.useFullChannelId = full] :
     g \in {<<>>, <<"g1">>}, full \in BOOLEAN}

InitGroupIds == InitWith(GroupIdConfigs)

NextGroupIds ==
  \/ \E minute \in Minutes : Apply(minute)
  \/ ScheduleRun("run", 8 * 60)
  \/ \E arg \in GroupArgs : AddGroup(arg)
  \/ \E arg \in GroupArgs : RemoveGroup(arg)
  \/ \E j \in JobIds : QueryResolve(j, 1, FirstResult)
  \/ \E j \in JobIds : QueryReject(j, 1, "timeout")
  \/ \E j \in JobIds, ok \in BOOLEAN : BroadcastSettle(j, ok)
  \/ \E j \in JobIds : Retire(j)

SpecGroupIds == InitGroupIds /\ [][NextGroupIds]_vars

----------------------------------------------------------------------------
(* parseAddress under the cs command *)

ParseConfigs == {[BaseConfig EXCEPT !.generateImage = FALSE]}

InitParse == InitWith(ParseConfigs)

NextParse ==
  \/ \E minute \in Minutes : Apply(minute)
  \/ \E a \in ParseInputs : CsQuery(a, NoOpts)
  \/ \E j \in JobIds : QueryResolve(j, 1, FirstResult)
  \/ \E j \in JobIds : QueryReject(j, 1, "timeout")
  \/ \E j \in JobIds : Retire(j)

SpecParse == InitParse /\ [][NextParse]_vars

----------------------------------------------------------------------------
(* The csss command on lists longer than the cap *)

\* eleven addresses, the first and the tenth of which parse
ElevenGiven ==
  <<"b:2", "a:0", "a:0", "a:0", "a:0", "a:0", "a:0", "a:0", "a:0", "a:1", "bad">>

ElevenListed ==
  <<"a:1", "a:0", "a:0", "a:0", "a:0", "a:0", "a:0", "a:0", "a:0", "b:2", "bad">>

CapConfigs ==
  {[BaseConfig EXCEPT !.cacheTime = c, !.generateImage = FALSE, !.serverList = sl] :
     c \in CacheTimes, sl \in {ElevenListed, SubSeq(ElevenListed, 1, 10)}}

InitCap == InitWith(CapConfigs)

NextCap ==
  \/ \E minute \in Minutes : Apply(minute)
  \/ \E addresses \in {<<>>, ElevenGiven} : CsssQuery(addresses, NoOpts)
  \/ \E j \in JobIds, m \in 1..10, r \in Results : QueryResolve(j, m, r)
  \/ \E j \in JobIds, m \in 1..10 : QueryReject(j, m, "timeout")
  \/ \E j \in JobIds : Retire(j)

SpecCap == InitCap /\ [][NextCap]_vars

----------------------------------------------------------------------------
(* The list-management flags of csss *)

\* one flag at a time, two invocations with two flags, and none
ManageOpts ==
  {[NoFlags EXCEPT !.list = TRUE], [NoFlags EXCEPT !.clear = TRUE], NoFlags,
   [NoFlags EXCEPT !.list = TRUE, !.add = "bad"],
   [NoFlags EXCEPT !.add = "a:1", !.clear = TRUE]}
    \cup {[NoFlags EXCEPT !.add = a] : a \in {"a:1", "a:0", "bad"}}
    \cup {[NoFlags EXCEPT !.remove = <<n>>] : n \in {-1, 0, 1, 2, 3, 4}}

ManageConfigs ==
  {[BaseConfig EXCEPT !.generateImage = FALSE, !.serverList = sl] :
     sl \in {<<>>, <<"a:1", "b:2">>}}

InitManage == InitWith(ManageConfigs)

NextManage ==
  \/ \E minute \in Minutes : Apply(minute)
  \/ \E addresses \in {<<>>, <<"b:2">>}, opts \in ManageOpts : Csss(addresses, opts)
  \/ \E j \in JobIds, m \in 1..MaxList : QueryResolve(j, m, FirstResult)
  \/ \E j \in JobIds, m \in 1..MaxList : QueryReject(j, m, "timeout")
  \/ \E j \in JobIds : Retire(j)

SpecManage == InitManage /\ [][NextManage]_vars

----------------------------------------------------------------------------
(* cs --clear *)

\* three hosts and an address parseAddress rejects
ClearAddresses == {"a:1", "b:2", "bad", "a:0"}

ClearConfigs == {[BaseConfig EXCEPT !.cacheTime = c, !.generateImage = FALSE] :
                   c \in CacheTimes}

InitClear == InitWith(ClearConfigs)

NextClear ==
  \/ \E minute \in Minutes : Apply(minute)
  \/ \E a \in ClearAddresses : CsQuery(a, NoOpts)
  \/ \E a \in ClearAddresses : CsClear(a)
  \/ \E j \in JobIds, r \in Results : QueryResolve(j, 1, r)
  \/ \E j \in JobIds : QueryReject(j, 1, "timeout")
  \/ \E j \in JobIds : Retire(j)

SpecClear == InitClear /\ [][NextClear]_vars

----------------------------------------------------------------------------
(* The cache emptied while a query is under way *)

InitEmptied == InitWith(ClearConfigs)

NextEmptied ==
  \/ \E minute \in Minutes : Apply(minute)
  \/ \E a \in {"a:1", "b:2"} : CsQuery(a, NoOpts)
  \/ \E a \in {"a:1"} : CsClear(a)
  \/ \E j \in JobIds, r \in Results : QueryResolve(j, 1, r)
  \/ \E j \in JobIds : QueryReject(j, 1, "timeout")
  \/ \E j \in JobIds : Retire(j)
  \/ Tick
  \/ Dispose

SpecEmptied == InitEmptied /\ [][NextEmptied]_vars

----------------------------------------------------------------------------
(* Properties *)

\* the queryServer calls in flight or just returned
Calls ==
  {jobs[j].members[1] : j \in {k \in JobIds : jobs[k] # NoJob /\ jobs[k].kind = "cs"
                                               /\ jobs[k].src = "command"}}

\* the message a QueryFailed error carries for an underlying message
Carried(message) == IF message = "" THEN UnknownError ELSE message

\* C1 (as claimed): with cacheTime T > 0 and no cache clear in between, a
\* call made less than T after an earlier collaborator-backed call for the
\* same host:port returned is served from the cache without invoking the
\* collaborator, and a call made T or more after it invokes the collaborator.
C1_ServedWithinTtlOfReturn ==
  \A c \in Calls :
    (config.cacheTime > 0 /\ c.st # "invalid" /\ c.sinceOk >= 0) =>
      /\ c.sinceOk < config.cacheTime => (c.hit /\ c.attempts = 0)
      /\ c.sinceOk >= config.cacheTime => (~c.hit /\ c.attempts >= 1)

\* C2: on a cache miss queryServer invokes the collaborator at most
\* retryCount + 1 times, every attempt before the last one failed, no attempt
\* follows a successful one, and the successful attempt's result is returned.
C2_BoundedAttemptsFirstSuccessWins ==
  \A c \in Calls :
    (c.st # "invalid" /\ ~c.hit) =>
      /\ c.attempts <= config.retryCount + 1
      /\ Len(c.log) <= c.attempts
      /\ \A k \in 1..(Len(c.log) - 1) : ~c.log[k].ok
      /\ (Len(c.log) > 0 /\ c.log[Len(c.log)].ok) =>
            (c.st = "ok" /\ c.attempts = Len(c.log))
      /\ c.st = "ok" =>
            (c.log[Len(c.log)].ok /\ c.value.result = c.log[Len(c.log)].v)

C2_Witness ==
  \E c \in Calls :
    /\ c.st = "ok" /\ ~c.hit
    /\ config.retryCount >= 1
    /\ c.attempts = config.retryCount + 1

\* C3: every wait is the fixed delay, and there is one wait per failed
\* attempt that is followed by another attempt: k waits when k failures are
\* followed by a success, retryCount waits when all retryCount + 1 attempts
\* fail (none after the last failure).
C3_OneFixedWaitPerRetry ==
  \A c \in Calls :
    (c.st # "invalid" /\ ~c.hit) =>
      /\ \A k \in 1..Len(c.waits) : c.waits[k] = RetryDelay
      /\ c.st = "ok" => Len(c.waits) = Len(c.log) - 1
      /\ c.st = "failed" =>
            (Len(c.log) = config.retryCount + 1 /\ Len(c.waits) = config.retryCount)
      /\ c.st = "waiting" => Len(c.waits) = Len(c.log)
      /\ c.st = "pending" => Len(c.waits) = Len(c.log)

C3_Witness ==
  \E c \in Calls :
    /\ c.st = "failed"
    /\ config.retryCount >= 1
    /\ Len(c.waits) = config.retryCount

\* C4: when all retryCount + 1 attempts fail the call fails with QueryFailed
\* carrying the message of the last attempt's error.
C4_QueryFailedCarriesLastError ==
  \A c \in Calls :
    c.st = "failed" =>
      /\ c.value.kind = "QueryFailed"
      /\ Len(c.log) = config.retryCount + 1
      /\ \A k \in 1..Len(c.log) : ~c.log[k].ok
      /\ c.value.detail = Carried(c.log[Len(c.log)].v)

C4_Witness ==
  \E c \in Calls :
    /\ c.st = "failed"
    /\ Len(c.log) >= 2
    /\ c.log[1].v # c.log[Len(c.log)].v

\* the last handler to run was a start: apply() with the schedule enabled,
\* cs.schedule --start, or the config listener with the schedule enabled
StartHandled ==
  trace.handler = "start" \/ (trace.handler \in {"init", "config"} /\ trace.enabled)

\* the last handler to run was a stop: cs.schedule --stop, dispose, or the
\* config listener with the schedule disabled
StopHandled ==
  trace.handler \in {"stop", "dispose"}
    \/ (trace.handler = "config" /\ ~trace.enabled)

\* the names of the calls the last handler made, in order
OpNames == [k \in 1..Len(trace.ops) |-> trace.ops[k].op]

\* C5: whatever sequence of initialization, start, stop, config events and
\* teardown has run, at most one armed, uncleared repeating timer exists, and
\* after a start (a second start in succession included) exactly one does:
\* the one whose handle is held.
C5_AtMostOneLiveTimer ==
  /\ Cardinality(liveTimers) <= 1
  /\ StartHandled => (liveTimers = {scheduleTimer} /\ scheduleTimer # 0)

C5_Witness ==
  /\ trace.handler = "start"
  /\ trace.before.live # {}
  /\ scheduleTimer \notin trace.before.live
  /\ Cardinality(liveTimers) = 1

\* C6: a start with the schedule enabled and interval > 0 clears the prior
\* timer if one is held, then launches exactly one immediate tick execution,
\* then arms one repeating timer at interval minutes, in this order; a
\* handler that finds the schedule not enabled launches no tick and arms no
\* timer.
C6_StartClearsRunsThenArms ==
  /\ (StartHandled /\ trace.enabled /\ trace.interval > 0) =>
       /\ OpNames = (IF trace.before.timer # 0 THEN <<"clearInterval">> ELSE <<>>)
                       \o <<"executeScheduleTask", "setInterval">>
       /\ trace.before.timer # 0 => trace.ops[1].id = trace.before.timer
       /\ trace.ops[Len(trace.ops)].ms = trace.interval * 60 * 1000
       /\ trace.ops[Len(trace.ops)].id = scheduleTimer
       /\ liveTimers = {scheduleTimer}
  /\ (trace.handler # "none" /\ ~(trace.enabled /\ trace.interval > 0)) =>
       /\ \A k \in 1..Len(OpNames) :
            OpNames[k] \notin {"executeScheduleTask", "setInterval"}
       /\ liveTimers = {}

C6_Witness ==
  /\ trace.handler = "start"
  /\ trace.before.timer # 0
  /\ OpNames = <<"clearInterval", "executeScheduleTask", "setInterval">>
  /\ lastTick.src = "start" /\ lastTick.ran

\* C7: after a stop or the teardown no timer is live and the handle is
\* null, so no timer-driven tick can begin; a stop that finds no handle
\* (never started) clears nothing, arms nothing and leaves the handle null.
C7_StopClearsTimerAndHandle ==
  StopHandled =>
    /\ liveTimers = {}
    /\ scheduleTimer = 0
    /\ trace.before.timer # 0 =>
         (OpNames = <<"clearInterval">> /\ trace.ops[1].id = trace.before.timer)
    /\ trace.before.timer = 0 => (trace.ops = <<>> /\ trace.before.live = {})

C7_Witness ==
  /\ trace.handler \in {"stop", "dispose"}
  /\ trace.before.timer # 0
  /\ trace.before.live = {trace.before.timer}
  /\ liveTimers = {}

\* a stop with the scheduler never started
C7_NeverStartedWitness ==
  /\ trace.handler = "stop"
  /\ trace.before.timer = 0
  /\ trace.ops = <<>>

\* C8: a tick, whatever launched it, queries and broadcasts exactly when the
\* schedule is enabled, there is a destination, there is an address and the
\* minute of the day m has 08:00 <= m <= 08:01, the configured window, both
\* ends included.
C8_TickRunsOnlyInsideGuards ==
  lastTick.src # "none" =>
    (lastTick.ran <=>
       /\ lastTick.enabled
       /\ lastTick.groups > 0
       /\ lastTick.servers > 0
       /\ 8 * 60 <= lastTick.minute
       /\ lastTick.minute <= 8 * 60 + 1)

\* a timer-driven tick at the last minute of the window runs
C8_Witness ==
  /\ lastTick.src = "timer"
  /\ lastTick.ran
  /\ lastTick.minute = 8 * 60 + 1

\* the csss invocations whose fan-out has returned
Batches ==
  {jobs[j] : j \in {k \in JobIds : jobs[k] # NoJob /\ jobs[k].kind = "csss"
                                    /\ jobs[k].phase # "query"}}

\* the outcome of the i-th callback's own parseAddress and queryServer
OwnSuccess(job, i) ==
  /\ Parsed[job.servers[i]].ok
  /\ \/ job.members[i].hit
     \/ /\ Len(job.members[i].log) > 0
        /\ job.members[i].log[Len(job.members[i].log)].ok

\* C9: the fan-out over n addresses returns n entries, entry i tagged
\* index i, naming the i-th address, and marked success exactly when that
\* address's own parse and query succeeded, carrying its own data or error.
C9_OneEntryPerAddressInOrder ==
  \A job \in Batches :
    /\ Len(job.results) = Len(job.servers)
    /\ \A i \in 1..Len(job.servers) :
         /\ job.results[i].status = "fulfilled"
         /\ job.results[i].value.index = i
         /\ job.results[i].value.server = job.servers[i]
         /\ job.results[i].value.success <=> OwnSuccess(job, i)
         /\ ~Parsed[job.servers[i]].ok =>
              job.results[i].value.error = InvalidAddress(job.servers[i])
         /\ (OwnSuccess(job, i) /\ ~job.members[i].hit) =>
              job.results[i].value.data.result
                = job.members[i].log[Len(job.members[i].log)].v

C9_Witness ==
  \E job \in Batches :
    /\ Len(job.servers) = 3
    /\ job.results[1].value.success
    /\ ~job.results[2].value.success
    /\ job.results[3].value.success
    /\ job.results[1].value.data.result # job.results[3].value.data.result

\* the ticks whose broadcast loop has ended
DoneTicks ==
  {jobs[j] : j \in {k \in JobIds : jobs[k] # NoJob /\ jobs[k].kind = "tick"
                                    /\ jobs[k].phase = "done"}}

\* the delivery attempts a tick made to the stored group id g
Attempts(job, g) == {k \in 1..Len(job.sent) : job.sent[k].group = g}

\* C10 (as claimed): in a tick that passed its guards every configured
\* destination (one that was in the list when the tick began and still is
\* when it ends) got exactly one delivery attempt, and the attempts follow
\* the list order.
C10_EachDestinationAttemptedOnce ==
  \A job \in DoneTicks :
    /\ \A g \in job.kept : Cardinality(Attempts(job, g)) = 1
    /\ \A k, l \in 1..Len(job.sent) :
         (k < l /\ job.sent[k].group \in job.kept /\ job.sent[l].group \in job.kept)
           => ArrayIndexOf(config.scheduleGroups, job.sent[k].group)
                < ArrayIndexOf(config.scheduleGroups, job.sent[l].group)

----------------------------------------------------------------------------
(* C11 - C13 *)

\* parseAddress threw the InvalidAddress error naming the call's input
Rejected(c) == c.st = "invalid" /\ c.value = InvalidAddress(c.server)

\* parseAddress returned {host, port}
Returned(c, host, port) == c.st # "invalid" /\ c.host = host /\ c.port = port

RECURSIVE ColonsOutside(_, _)
\* the number of ':' of s that are not between a '[' and the next ']'
ColonsOutside(s, inside) ==
  IF Len(s) = 0 THEN 0
  ELSE IF Char(s, 1) = "[" THEN ColonsOutside(Drop(s, 1), TRUE)
  ELSE IF Char(s, 1) = "]" THEN ColonsOutside(Drop(s, 1), FALSE)
  ELSE (IF Char(s, 1) = ":" /\ ~inside THEN 1 ELSE 0)
         + ColonsOutside(Drop(s, 1), inside)

\* h is "[" text "]" with a non-empty text free of ']'
BracketForm(h) ==
  /\ Len(h) >= 3
  /\ Char(h, 1) = "["
  /\ IndexOf(h, "]") = Len(h)

\* C11 (as claimed): for every host without ':' and port p in 1..65535,
\* parseAddress("host:p") returns exactly {host, p} and parseAddress("host")
\* returns {host, 27015}; an input with port 0, port 65536 or more than one
\* unbracketed colon fails with InvalidAddress.
C11_PlainHostPortExact ==
  \A c \in Calls :
    /\ \A h \in ParseHosts :
         /\ c.server = h => Returned(c, h, DefaultPort)
         /\ \A p \in ParsePorts :
              c.server = h \o ":" \o NumToString(p) =>
                IF 1 <= p /\ p <= MaxPort THEN Returned(c, h, p) ELSE Rejected(c)
    /\ ColonsOutside(c.server, FALSE) > 1 => Rejected(c)

\* C11 (amended): the same for every host without ':' that is not itself of
\* the bracketed form [text], the colons being counted after the scheme
\* prefix is stripped.
C11_PlainHostPortExactAmended ==
  \A c \in Calls :
    /\ \A h \in ParseHosts :
         /\ (c.server = h /\ ~BracketForm(h)) => Returned(c, h, DefaultPort)
         /\ \A p \in ParsePorts :
              c.server = h \o ":" \o NumToString(p) =>
                IF 1 <= p /\ p <= MaxPort
                THEN ~BracketForm(h) => Returned(c, h, p)
                ELSE Rejected(c)
    /\ ColonsOutside(StripScheme(c.server), FALSE) > 1 => Rejected(c)

C11_Witness ==
  \E c \in Calls :
    /\ c.server = "a b:65535"
    /\ Returned(c, "a b", MaxPort)

\* the text after the first ']' of a
AfterBracket(a) == Drop(a, IndexOf(a, "]"))

\* C12 (as claimed): an input that after scheme stripping starts with '['
\* is rejected with InvalidAddress when it has no ']'; when it is accepted,
\* the host is the text between '[' and the first ']' and the port is 27015
\* or the one given by the ':port' suffix after the bracket.
C12_BracketRequiresMatch ==
  \A c \in Calls :
    StartsWith(StripScheme(c.server), "[") =>
      /\ IndexOf(StripScheme(c.server), "]") = 0 => Rejected(c)
      /\ c.st # "invalid" =>
           /\ c.host = SubSeq(StripScheme(c.server), 2,
                              IndexOf(StripScheme(c.server), "]") - 1)
           /\ \/ AfterBracket(StripScheme(c.server)) = "" /\ c.port = DefaultPort
              \/ AfterBracket(StripScheme(c.server)) = ":" \o NumToString(c.port)

\* t is one or more digits and denotes a port in 1..65535
GoodPort(t) ==
  /\ Len(t) > 0
  /\ AllDigits(t)
  /\ DigitsValue(t, DecDigits, 10, 0) \in 1..MaxPort

\* a is host, host:port, [host] or [host]:port, the port as in GoodPort
GoodShape(a) ==
  \/ ~Includes(a, ":")
  \/ GoodPort(Drop(a, IndexOf(a, ":")))
  \/ /\ StartsWith(a, "[")
     /\ IndexOf(a, "]") >= 3
     /\ \/ AfterBracket(a) = ""
        \/ StartsWith(AfterBracket(a), ":") /\ GoodPort(Drop(AfterBracket(a), 1))

\* C13 (as claimed): every input of no accepted shape, in particular one
\* whose port part is not purely digits, makes parseAddress fail with the
\* InvalidAddress error naming the input.
C13_OtherShapesRejected ==
  \A c \in Calls : ~GoodShape(StripScheme(c.server)) => Rejected(c)

----------------------------------------------------------------------------
(* The csss command *)

\* the csss invocations that took the query path
BatchQueries ==
  {jobs[j] : j \in {k \in JobIds : jobs[k] # NoJob /\ jobs[k].kind = "csss"
                                    /\ jobs[k].src = "command"}}

\* the list a csss invocation is to query: the positional addresses if any,
\* otherwise the persistent list as it was on entry
Effective(job) == IF Len(job.args) > 0 THEN job.args ELSE job.seen.serverList

\* C14: the batch command queries the first 10 entries of the effective
\* list at most, in order, sends the truncation warning exactly when the
\* list is longer, and leaves the persistent list as it found it.
C14_QueriesFirstTenAndWarns ==
  \A job \in BatchQueries :
    /\ Len(job.members) <= MaxServers
    /\ Len(job.members) = Len(job.servers)
    /\ Len(Effective(job)) <= MaxServers => Len(job.members) = Len(Effective(job))
    /\ Len(Effective(job)) > MaxServers => Len(job.members) = MaxServers
    /\ \A i \in 1..Len(job.members) :
         /\ job.members[i].server = Effective(job)[i]
         /\ job.servers[i] = Effective(job)[i]
    /\ job.warned <=> Len(Effective(job)) > MaxServers
    /\ config.serverList = job.seen.serverList

C14_Witness ==
  \E job \in BatchQueries :
    /\ Len(job.args) = 0
    /\ Len(job.seen.serverList) = MaxServers + 1
    /\ job.warned
    /\ job.phase = "done"
    /\ Len(job.results) = MaxServers
    /\ job.results[MaxServers].value.success

\* the flag that decides a csss invocation
Flag(o) ==
  IF o.list THEN "list"
  ELSE IF o.add # "" THEN "add"
  ELSE IF o.remove # <<>> THEN "remove"
  ELSE IF o.clear THEN "clear"
  ELSE "none"

\* `after` is `before` without its n-th element
WithoutNth(before, after, n) ==
  /\ Len(after) = Len(before) - 1
  /\ \A i \in 1..Len(after) : after[i] = IF i < n THEN before[i] ELSE before[i + 1]

\* what an invocation decided by a list-management flag did to the list
\* `before`, and what it replied
FlagEffect(job, before, after) ==
  /\ job.phase = "done"
  /\ job.members = <<>>
  /\ Flag(job.opts) = "list" => (after = before /\ job.ret.type = "list")
  /\ Flag(job.opts) = "add" =>
       IF Parsed[job.opts.add].ok
       THEN after = Append(before, job.opts.add) /\ job.ret.type = "added"
       ELSE after = before /\ job.ret.type = "addFailed"
  /\ Flag(job.opts) = "remove" =>
       IF 1 <= job.opts.remove[1] /\ job.opts.remove[1] <= Len(before)
       THEN /\ WithoutNth(before, after, job.opts.remove[1])
            /\ job.ret.type = "removed"
            /\ job.ret.removed = before[job.opts.remove[1]]
       ELSE after = before /\ job.ret.type = "badIndex"
  /\ Flag(job.opts) = "clear" =>
       (after = <<>> /\ job.ret.type = "cleared" /\ job.ret.count = Len(before))

\* C15: a csss invocation decided by --list, --add, --remove or --clear
\* starts no query and returns at once; --add appends the address exactly
\* when parseAddress accepts it, --remove removes exactly the element at an
\* in-range 1-based index and nothing otherwise, --clear empties the list and
\* reports how many entries it held; --list changes nothing.
C15_FlagsEditListWithoutQuery ==
  [][(jobs'[0] # jobs[0] /\ jobs'[0].kind = "csss")
       => /\ Flag(jobs'[0].opts) # "none"
          /\ FlagEffect(jobs'[0], config.serverList, config'.serverList)
          /\ cache' = cache
          /\ \A k \in JobIds : jobs'[k] = jobs[k]]_vars

C15_Witness ==
  /\ jobs[0] # NoJob
  /\ jobs[0].kind = "csss"
  /\ jobs[0].opts.remove = <<2>>
  /\ jobs[0].ret.type = "removed"
  /\ jobs[0].seen.serverList = <<"a:1", "b:2">>
  /\ config.serverList = <<"a:1">>

----------------------------------------------------------------------------
(* cs --clear *)

\* C16: cs <address> --clear leaves the cache empty, returns the number of
\* entries the cache held just before, and neither parses the address nor
\* starts a query, whatever the address.
C16_ClearEmptiesAndCounts ==
  [][(jobs'[0] # jobs[0] /\ jobs'[0].kind = "cs")
       => /\ jobs'[0].opts.clear
          /\ cache' = EmptyMap
          /\ jobs'[0].phase = "done"
          /\ jobs'[0].ret = [type |-> "cleared", count |-> Cardinality(DOMAIN cache)]
          /\ jobs'[0].members = <<>>
          /\ \A k \in JobIds : jobs'[k] = jobs[k]]_vars

\* a clear of a cache of two entries, asked with an address parseAddress
\* rejects
C16_Witness ==
  /\ jobs[0] # NoJob
  /\ jobs[0].src = "clear"
  /\ jobs[0].servers = <<"a:0">>
  /\ jobs[0].ret.count = 2
  /\ cache = EmptyMap

----------------------------------------------------------------------------
(* C17 *)

\* the ticks whose image generation threw and that have made a delivery
\* attempt
FailedImageTicks ==
  {jobs[j] : j \in {k \in JobIds : jobs[k] # NoJob /\ jobs[k].kind = "tick"
                                     /\ jobs[k].imageError
                                     /\ jobs[k].sent # <<>>}}

\* C17: a tick whose image generation threw broadcasts the text table of its
\* results preceded by the notice that image generation failed and text
\* format is used
C17_FailedImageSendsNoticeAndTable ==
  \A job \in FailedImageTicks :
    /\ job.out.type = "text"
    /\ job.out.table = generateTextTable(job.results, job.servers, "tick")
    /\ job.out.notice

----------------------------------------------------------------------------
(* C18 *)

\* the command invocations whose image generation threw
FailedImageCommands ==
  {jobs[j] : j \in {k \in JobIds : jobs[k] # NoJob /\ jobs[k].kind \in {"cs", "csss"}
                                     /\ jobs[k].imageError}}

\* C18: when image generation throws, cs returns the render-failure message
\* and not the text report, and csss returns the text table of the results
\* its queries settled with
C18_CsReportsCsssFallsBack ==
  \A job \in FailedImageCommands :
    /\ job.phase = "done"
    /\ job.kind = "cs" => job.ret = [type |-> "renderError"]
    /\ job.kind = "csss" =>
         /\ job.ret = generateTextTable(job.results, job.servers, "batch")
         /\ job.results = [i \in 1..Len(job.members) |-> ResultOf(job.members[i])]

\* a csss invocation over a good and a rejected address whose image
\* generation threw
C18_Witness ==
  \E job \in FailedImageCommands :
    /\ job.kind = "csss"
    /\ job.ret.type = "text"
    /\ job.ret.successful = 1
    /\ job.ret.failed = 1

----------------------------------------------------------------------------
(* C19 *)

\* the cs invocations that returned the text report
TextReports ==
  {jobs[j] : j \in {k \in JobIds : jobs[k] # NoJob /\ jobs[k].kind = "cs"
                                     /\ jobs[k].phase = "done"
                                     /\ jobs[k].ret.type = "text"}}

Orders(n) == {p \in [1..n -> 1..n] : \A i, k \in 1..n : p[i] = p[k] => i = k}

\* the players taken in the order p are in case-insensitive order of their
\* cleaned names
InNameOrder(players, p) ==
  \A i \in 1..(Len(players) - 1) :
    localeCompare(toLowerCase(cleanName(players[p[i]].name)),
                  toLowerCase(cleanName(players[p[i + 1]].name))) <= 0

\* the line of entry i; the report's last line has lost trailing blanks
EntryLine(lines, i, name) ==
  LET entry == NumToString(i) \o ". " \o name
  IN  lines[1 + i] = IF 1 + i = Len(lines) THEN TrimEnd(entry) ELSE entry

\* the lines after the header are the first `shown` players of the order p,
\* numbered from 1
ListsInOrder(lines, players, shown, p) ==
  \A i \in 1..shown : EntryLine(lines, i, cleanName(players[p[i]].name))

PlayersReport(lines, players, shown, hidden) ==
  /\ Len(lines) = 1 + shown + (IF hidden > 0 THEN 1 ELSE 0)
  /\ \E p \in Orders(Len(players)) :
       InNameOrder(players, p) /\ ListsInOrder(lines, players, shown, p)
  /\ hidden > 0 => lines[Len(lines)] = MoreNotShown(hidden)

\* C19: formatPlayers of no players is the fixed no-players line; of n > 0
\* players it lists min(n, maxPlayers) entries numbered from 1 in
\* case-insensitive order of the cleaned names, and ends with the line
\* telling that n - maxPlayers more are not shown exactly when n > maxPlayers
C19_ListsSortedCappedPlayers ==
  \A job \in TextReports :
    LET players == job.ret.data.result.players
        n == Len(players)
    IN  IF n = 0 THEN job.ret.players = NoPlayersOnline
        ELSE PlayersReport(Split(job.ret.players, "\n"), players,
                           IF n < config.maxPlayers THEN n ELSE config.maxPlayers,
                           IF n > config.maxPlayers THEN n - config.maxPlayers ELSE 0)

\* three players, two of them shown: the upper-case and the coloured name
\* before the one given first
C19_Witness ==
  \E job \in TextReports :
    /\ config.maxPlayers = 2
    /\ job.ret.data.result.players = <<[name |-> "b"], [name |-> "A"], [name |-> "^1a"]>>
    /\ job.ret.players = "players online (3):\n1. A\n2. a\n... 1 more not shown"

----------------------------------------------------------------------------
(* C20 *)

\* the csss invocations that returned the text table
TextTables ==
  {jobs[j] : j \in {k \in JobIds : jobs[k] # NoJob /\ jobs[k].kind = "csss"
                                     /\ jobs[k].phase = "done"
                                     /\ jobs[k].ret.type = "text"}}

\* the row is the two-character index, two blanks, a name field of
\* NameWidth characters holding the start of the name, a blank and the
\* player count
FixedWidthRow(text, index, name, count) ==
  text = PadStart(NumToString(index), 2) \o "  "
           \o PadEnd(SubSeq(name, 1, IF Len(name) < NameWidth THEN Len(name)
                                     ELSE NameWidth), NameWidth)
           \o " " \o count

\* C20: in the batch text table the row of every successfully queried
\* address has a name field of exactly 20 characters, the name truncated or
\* padded to it, so that the player count starts at the same offset
C20_SuccessRowsHaveFixedNameField ==
  \A job \in TextTables :
    \A i \in 1..Len(job.ret.rows) :
      job.ret.rows[i].ok =>
        FixedWidthRow(job.ret.rows[i].text, i,
                      ServerName(job.results[i].value.data.result),
                      PlayerCount(job.results[i].value.data.result))

----------------------------------------------------------------------------
(* C21 *)

\* in this step gamedig.query of member m of job j resolved
Resolves(j, m) ==
  /\ jobs[j] # NoJob
  /\ jobs[j].phase = "query"
  /\ m \in 1..Len(jobs[j].members)
  /\ jobs[j].members[m].st = "pending"
  /\ jobs'[j].members[m].st = "ok"

\* the cache after the step is the cache before it with the entry of the
\* member's own key host:port set to the call's time and the data returned
SetsOwnEntry(before, after) ==
  cache' = (CacheKey(before.host, before.port)
              :> [timestamp |-> before.now, data |-> after.value]) @@ cache

\* C21: the cache changes only by a successful collaborator call under
\* cacheTime > 0 setting the entry of its own key, such a call does set it,
\* and a call made with cacheTime = 0 is never served from the cache
C21_CacheChangesOnlyByOwnSuccess ==
  [][/\ cache' # cache =>
          \E j \in JobIds, m \in 1..MaxServers :
            /\ Resolves(j, m)
            /\ config.cacheTime > 0
            /\ SetsOwnEntry(jobs[j].members[m], jobs'[j].members[m])
     /\ \A j \in JobIds, m \in 1..MaxServers :
          Resolves(j, m) =>
            IF config.cacheTime > 0
            THEN SetsOwnEntry(jobs[j].members[m], jobs'[j].members[m])
            ELSE cache' = cache
     /\ \A j \in JobIds :
          (jobs[j] = NoJob /\ jobs'[j] # NoJob /\ config.cacheTime = 0)
            => \A m \in 1..Len(jobs'[j].members) : ~jobs'[j].members[m].hit]_vars

\* a call whose attempts all failed while the entry of its key was stale:
\* the entry is still there
C21_Witness ==
  \E j \in JobIds :
    /\ jobs[j] # NoJob
    /\ jobs[j].members # <<>>
    /\ jobs[j].members[1].st = "failed"
    /\ jobs[j].members[1].key \in DOMAIN cache
    /\ config.cacheTime > 0
    /\ jobs[j].members[1].now - cache[jobs[j].members[1].key].timestamp
         >= config.cacheTime

----------------------------------------------------------------------------
(* C22 *)

\* the fan-out of the csss invocation j is awaiting Promise.allSettled
FanOutAwaits(j) ==
  jobs[j] # NoJob /\ jobs[j].kind = "csss" /\ jobs[j].phase = "query"

\* it has returned
FanOutReturned(j) ==
  jobs[j] # NoJob /\ jobs[j].kind = "csss" /\ jobs[j].phase # "query"

\* the member succeeded, was rejected by parseAddress, or failed with every
\* attempt of its retry loop made
RanToItsEnd(member) ==
  \/ member.st \in {"ok", "invalid"}
  \/ member.st = "failed" /\ member.attempts = config.retryCount + 1

\* member m of job j is awaiting a collaborator: gamedig.query, or the
\* setTimeout of the retry delay
AwaitsCollaborator(j, m) ==
  /\ FanOutAwaits(j)
  /\ m <= Len(jobs[j].members)
  /\ jobs[j].members[m].st \in {"pending", "waiting"}

\* no collaborator call stays unsettled for ever
CollaboratorsSettle ==
  \A j \in JobIds, m \in 1..3 : []<>(~AwaitsCollaborator(j, m))

\* C22: the fan-out returns only with every member settled, none cut short,
\* whatever time has passed, and, every collaborator call settling, it
\* does return
C22_FanOutReturnsWhenAllSettled ==
  /\ [](\A j \in JobIds :
          FanOutReturned(j) =>
            /\ Len(jobs[j].results) = Len(jobs[j].members)
            /\ \A m \in 1..Len(jobs[j].members) : RanToItsEnd(jobs[j].members[m]))
  /\ CollaboratorsSettle => \A j \in JobIds : FanOutAwaits(j) ~> FanOutReturned(j)

\* a fan-out that returned after more than batchTimeout, a member having
\* used its retry
C22_Witness ==
  \E j \in JobIds :
    /\ FanOutReturned(j)
    /\ jobs[j].queryTime > config.batchTimeout
    /\ Len(jobs[j].members) = 3
    /\ jobs[j].members[1].st = "failed"
    /\ jobs[j].members[1].attempts = 2
    /\ jobs[j].members[3].st = "ok"

----------------------------------------------------------------------------
(* C23 *)

\* the member has made its own collaborator calls: at least one, each
\* logged with its outcome, retryCount + 1 of them when it failed, and a
\* success returning what its own last call resolved with
RunsOwnSequence(member) ==
  /\ member.attempts >= 1
  /\ Settled(member) => Len(member.log) = member.attempts
  /\ member.st = "failed" => member.attempts = config.retryCount + 1
  /\ member.st = "ok" =>
       /\ member.log[Len(member.log)].ok
       /\ member.value.result = member.log[Len(member.log)].v

\* C23: members of a batch that started for one key while the cache had no
\* fresh entry for it each call the collaborator and run their own retry
\* sequence, and each success sets the cache entry under cacheTime > 0
C23_SameKeyCallsRunSeparately ==
  /\ [](\A j \in JobIds :
          (jobs[j] # NoJob /\ jobs[j].kind = "csss") =>
            \A i, k \in 1..Len(jobs[j].members) :
              (i # k /\ jobs[j].members[i].key = jobs[j].members[k].key
                 /\ jobs[j].members[i].st # "invalid" /\ ~jobs[j].members[i].hit)
                => ~jobs[j].members[k].hit /\ RunsOwnSequence(jobs[j].members[i]))
  /\ [][\A j \in JobIds, m \in 1..MaxServers :
          (Resolves(j, m) /\ config.cacheTime > 0) =>
            cache'[jobs[j].members[m].key]
              = [timestamp |-> jobs[j].members[m].now,
                 data |-> jobs'[j].members[m].value]]_vars

\* two members of one key that both succeeded with different data, the
\* entry being that of the first member, which resolved last
C23_Witness ==
  \E j \in JobIds :
    /\ jobs[j] # NoJob
    /\ jobs[j].kind = "csss"
    /\ jobs[j].servers = <<"a:1", "udp://a:1">>
    /\ jobs[j].members[1].st = "ok"
    /\ jobs[j].members[2].st = "ok"
    /\ jobs[j].members[1].value.result # jobs[j].members[2].value.result
    /\ jobs[j].members[2].attempts = 2
    /\ jobs[j].members[1].key \in DOMAIN cache
    /\ cache[jobs[j].members[1].key].data = jobs[j].members[1].value

----------------------------------------------------------------------------
(* C24 *)

\* in this step the tick j went on after one of its awaits settled
TickGoesOn(j) ==
  /\ jobs[j] # NoJob
  /\ jobs[j].kind = "tick"
  /\ jobs'[j] # NoJob
  /\ jobs'[j] # jobs[j]

\* C24: whatever fails inside a tick, executeScheduleTask goes on to its
\* next await or returns, no exception leaving it, and the step leaves the
\* timer handle and the armed timers as they were
C24_TickFailuresStayInside ==
  /\ [](\A j \in JobIds :
          (jobs[j] # NoJob /\ jobs[j].kind = "tick")
            => jobs[j].phase \in {"query", "render", "send", "done"})
  /\ [][\A j \in JobIds :
          TickGoesOn(j) => /\ scheduleTimer' = scheduleTimer
                           /\ liveTimers' = liveTimers
                           /\ phase' = phase]_vars

\* a timer's tick that has returned with every address failed, the image
\* generation failed and every broadcast failed, the timer still armed
C24_Witness ==
  \E j \in JobIds :
    /\ jobs[j] # NoJob
    /\ jobs[j].kind = "tick"
    /\ jobs[j].src = "timer"
    /\ jobs[j].phase = "done"
    /\ \A m \in 1..Len(jobs[j].members) : jobs[j].members[m].st \in {"invalid", "failed"}
    /\ jobs[j].imageError
    /\ Len(jobs[j].sent) = 2
    /\ \A i \in 1..Len(jobs[j].sent) : ~jobs[j].sent[i].ok
    /\ scheduleTimer # 0
    /\ scheduleTimer \in liveTimers

----------------------------------------------------------------------------
(* C25 *)

\* C25: a write to the cache never replaces the entry of a key by one with
\* an earlier timestamp, also when the calls for the key overlap
C25_TimestampNeverDecreases ==
  [][\A key \in DOMAIN cache \cap DOMAIN cache' :
       cache'[key].timestamp >= cache[key].timestamp]_vars

----------------------------------------------------------------------------
(* C26 *)

\* the executions of executeScheduleTask suspended at an await: on their
\* queries, on the canvas or on a broadcast
TicksInFlight ==
  {j \in Awaiting : /\ jobs[j] # NoJob
                    /\ jobs[j].kind = "tick"
                    /\ jobs[j].phase \in {"query", "render", "send"}}

\* C26: no tick begins while an earlier tick awaits its queries or its
\* broadcasts, whether the timer, a schedule start or --run/--test begins it
C26_OneTickAtATime == Cardinality(TicksInFlight) <= 1

----------------------------------------------------------------------------
(* C27 *)

\* the latest reply that returned without awaiting is that of cs --clear
ClearedLast == jobs[0] # NoJob /\ jobs[0].src = "clear"

\* C27: what the cache holds after it was emptied comes from calls of
\* queryServer that began after that: after teardown, when no command begins
\* any more, it holds nothing, and after cs --clear the entry time stored
\* with an entry is not before the time of the clear
C27_NoEntryFromBeforeTheClear ==
  /\ phase = "disposed" => cache = EmptyMap
  /\ ClearedLast => \A key \in DOMAIN cache :
                      cache[key].timestamp >= jobs[0].startTime

----------------------------------------------------------------------------
(* C28 *)

\* a group id with the adapter prefix taken off, if it has it
WithoutPrefix(groupId) ==
  IF StartsWith(groupId, config.qqAdapterName \o ":")
  THEN SubSeq(groupId, Len(config.qqAdapterName) + 2, Len(groupId))
  ELSE groupId

\* the ticks awaiting ctx.broadcast for a destination --addGroup stored
\* for the argument arg
SendsToAdded(arg) ==
  {jobs[j] : j \in {k \in Awaiting : /\ jobs[k] # NoJob
                                     /\ jobs[k].kind = "tick"
                                     /\ jobs[k].phase = "send"
                                     /\ jobs[k].group = StoredGroupId(Trim(arg))}}

\* C28: with useFullChannelId on, the channel id broadcast to for a
\* destination given to --addGroup is the adapter name, a colon and the
\* group id without prefix: the prefix is there once
C28_PrefixedExactlyOnce ==
  config.useFullChannelId =>
    \A arg \in GroupArgs : \A job \in SendsToAdded(arg) :
      job.target = config.qqAdapterName \o ":" \o WithoutPrefix(Trim(arg))

----------------------------------------------------------------------------
(* C29 *)

\* the last command that replied at once was --addGroup with an argument
\* the list did not hold, and it added a destination
AddedLast ==
  /\ jobs[0] # NoJob
  /\ jobs[0].src = "addGroup"
  /\ jobs[0].ret.type = "added"
  /\ ~ArrayIncludes(jobs[0].seen.scheduleGroups, jobs[0].args[1])

\* C29: --removeGroup with the argument of the --addGroup before it finds
\* the destination, and the list is again what it was before the add,
\* whatever useFullChannelId is
C29_RemoveUndoesAdd ==
  [][(/\ AddedLast
      /\ jobs'[0].src = "removeGroup"
      /\ jobs'[0].args = jobs[0].args)
       => /\ jobs'[0].ret.type = "removed"
          /\ config'.scheduleGroups = jobs[0].seen.scheduleGroups]_vars

----------------------------------------------------------------------------
(* C30 *)

\* the cs invocations that returned the image
ServerImages ==
  {jobs[j] : j \in {k \in JobIds : jobs[k] # NoJob /\ jobs[k].kind = "cs"
                                     /\ jobs[k].phase = "done"
                                     /\ jobs[k].ret.type = "image"}}

\* the number of numbered entries among the lines of a text report of
\* n players
Listed(lines, n) ==
  Cardinality({i \in 2..Len(lines) :
                 \E k \in 1..n : StartsWith(lines[i], NumToString(k) \o ". ")})

\* C30: the names drawPlayerList draws are min(players.length, maxPlayers)
\* in number, as many as formatPlayers lists for the same players, in the
\* one-column and in the two-column layout
C30_DrawsAsManyAsTextLists ==
  \A job \in ServerImages :
    LET players == job.ret.of.result.players
        drawn == Len(job.ret.players.left) + Len(job.ret.players.right)
    IN  /\ drawn = IF Len(players) < config.maxPlayers
                   THEN Len(players) ELSE config.maxPlayers
        /\ drawn = Listed(Split(formatPlayers(players), "\n"), Len(players))
====
